---- MODULE Spec2Model ----
\* Catan board generator: the seeded layout generator of board-generator.ts,
\* the standalone generator and the mode-aware generator, as one state machine.
EXTENDS Integers, Sequences, FiniteSets, TLC

\* ---------------------------------------------------------------------------
\* Math.sin, tabulated.  Each entry is floor(frac(Math.sin(x) * 10000) * 10^9)
\* in IEEE double arithmetic; Base is the number before the first x of a table.
\* ---------------------------------------------------------------------------
BaseNameA == <<805, 518017>>
BaseClockA == <<1762301, 399148>>
BaseShownA == <<951, 170406>>
BaseNameB == <<496, 700733>>
BaseClockB == <<1762301, 235738>>
BaseShownB == <<1405, 696110>>
BaseJump == <<0, 102108>>

\* Math.sin table: floor(frac(sin(x) * 10000) * 10^9) for x = 0+1 .. 0+5400
SinFracSmall ==
  << 709848078, 974268256, 200080598, 975046920, 757253368, 845018010, 865987187, 582466233, 184852417, 788891106, 97934492, 270819995,
    670368266, 73556948, 878401571, 966833349, 25081204, 127532283, 772096629, 452507276, 556385360, 486907095, 795958248, 216379933,
    482499022, 584504796, 759284045, 57883078, 661157870, 683759071, 623546769, 266812416, 118601072, 826861200, 173305038, 211465568,
    618666430, 685787093, 953862840, 131604793, 773311952, 784520843, 252573714, 19251054, 35245341, 883476488, 731227452, 453386763,
    473472405, 251462960, 291758433, 275920404, 251501818, 109511483, 448266413, 489979130, 647552478, 726480845, 380071391, 893788977,
    822299916, 193033507, 557003028, 260381967, 286794901, 488459760, 800210246, 723193107, 151862168, 906815578, 546532543, 233627620,
    280431126, 537395317, 183645905, 76368981, 201585807, 784559875, 873312924, 113460766, 120057255, 287824330, 644611001, 903200732,
    243800514, 415529959, 821633691, 983027336, 694058124, 966636005, 875117511, 339303841, 178587300, 480145323, 617147361, 877454343,
    77390275, 181280095, 931658136, 343588902, 257871783, 267913584, 886314423, 775968374, 647164625, 574999191, 817445606, 185054177,
    426066363, 573219149, 485513893, 43956331, 180941067, 803886813, 353340247, 613933642, 20590646, 478309559, 958985619, 111842123,
    152247235, 131538963, 965093104, 130131108, 595408113, 908256737, 300672424, 377105017, 266079615, 940498132, 966128632, 835871460,
    657562142, 248164599, 686861040, 667932771, 855454417, 477404991, 801312247, 396594403, 713653732, 49928325, 546391260, 784061015,
    451620451, 691731217, 440218832, 666056757, 513519055, 235703708, 498814156, 205237488, 5807754, 796627439, 880172253, 153811852,
    514571252, 240965274, 197317131, 252583790, 922144226, 496492066, 898241550, 327780232, 972794498, 915637282, 498131281, 267112259,
    1323223, 494554970, 908679435, 591401823, 894670865, 380257487, 654048219, 522360803, 897877771, 753358042, 221672389, 473642661,
    485998823, 189340998, 804082392, 843832906, 211800942, 760624447, 289766078, 763309879, 179536679, 992786806, 85484614, 616423481,
    434253778, 136707315, 546679940, 300555699, 58429196, 214083357, 11639324, 27027860, 97492812, 184068658, 97001669, 203593127,
    24922322, 580968745, 949724590, 679301910, 666417661, 185183427, 521461495, 529062032, 293801801, 994513763, 456219572, 584883449,
    183905864, 754726705, 852585068, 987124875, 387978787, 508382163, 534852699, 790026350, 51219954, 561828409, 585970706, 230624856,
    623697323, 357959466, 158102418, 232767678, 392818032, 166912028, 866409896, 679105630, 421302179, 238868197, 906812750, 451549211,
    617132764, 880924817, 906511437, 637006557, 874367714, 599996228, 71855026, 521192217, 368065563, 719804581, 61397074, 122110036,
    237286710, 988980629, 83650755, 919658929, 428251844, 356268293, 931839466, 397038158, 187909180, 82904779, 528145011, 174862671,
    101700837, 540264645, 681772561, 649889871, 531197570, 540535287, 108186087, 569384347, 1548706, 885933150, 146740802, 143399590,
    43136735, 210918489, 827877060, 905791707, 485636711, 502354736, 525197902, 639681125, 715902084, 852411583, 590518918, 956292491,
    789797142, 456339220, 142254959, 259810118, 990012487, 900107374, 180889096, 612505645, 690550253, 376291460, 232783816, 441600988,
    359504109, 528310427, 325048439, 68037805, 960581383, 382865060, 646357625, 30360001, 13749637, 876886558, 717854673, 85242177,
    905097994, 70939714, 332645574, 873480674, 397884973, 387940237, 250043901, 445719155, 82654818, 122598719, 15338673, 347805436,
    637265458, 886657990, 348053161, 847343054, 389491684, 183707945, 88518029, 956581161, 788338861, 721491002, 329489429, 474057334,
    928487493, 108031781, 255514915, 107401625, 32333897, 396822393, 16448114, 96604938, 41826264, 459504870, 626321783, 638725243,
    555582156, 671749593, 172087001, 498506793, 99708898, 546973619, 698556466, 127285107, 151180647, 98346878, 221986283, 157234143,
    865543595, 906756837, 461398305, 89803780, 464039108, 900726865, 474803247, 56089678, 885229001, 350604392, 321845600, 57860636,
    673416102, 929865437, 424483172, 608727884, 814524588, 364656975, 655749932, 218708698, 220489022, 328783654, 232289465, 564336219,
    269738337, 100708226, 481718850, 885405659, 428937225, 99105187, 827103751, 150601529, 26313478, 965763750, 69442757, 524314367,
    336047978, 580087191, 679352726, 806403608, 246804855, 567906219, 739577117, 435911582, 457653077, 484527027, 773216594, 25310388,
    140476063, 545059076, 252820815, 81190467, 237597584, 852368648, 393308371, 255498763, 603938754, 145805582, 621499383, 882756931,
    812877380, 355864224, 144124545, 548686204, 902277958, 546624680, 57944968, 941486332, 410837124, 538496372, 675144240, 807755956,
    474021655, 396769705, 919810238, 645812915, 425902891, 280171142, 301791283, 52932659, 700129260, 6615020, 715718210, 152156211,
    168436950, 424628611, 849530244, 725721561, 227616305, 162749644, 176939717, 201491192, 65686442, 56333576, 396468349, 473241170,
    701468582, 349486850, 509457403, 425466512, 218060573, 886302682, 701755093, 747870923, 727929013, 665970913, 818590686, 519041798,
    9366270, 744877306, 678947615, 197680637, 464674138, 761131017, 642730926, 862426632, 129744636, 302577291, 897831154, 167137641,
    807186846, 629288846, 831767223, 29667421, 170215238, 857761709, 863110260, 193265774, 891657638, 613403598, 516712343, 43809306,
    229093809, 982265279, 663039673, 567209598, 193939808, 436270438, 953335002, 281946775, 282964280, 798869779, 617608001, 553921779,
    553508409, 205966651, 686535173, 172460476, 504237371, 266675417, 704007607, 184940128, 576505878, 905929973, 41514354, 292412479,
    441260755, 819937155, 429929556, 47206874, 348266506, 767042996, 755532498, 757972528, 222694152, 26482909, 621285185, 399997352,
    725475338, 165538942, 176951425, 957610474, 391169660, 79016666, 706755616, 408251331, 515986953, 983243478, 221022497, 70956234,
    480068859, 687571041, 971507201, 556568315, 987229953, 156816409, 665391362, 627975617, 648723213, 159225902, 596214270, 124114112,
    86403815, 130525190, 826108597, 601641251, 637677766, 11242630, 91629737, 185852567, 351572706, 766604502, 81620546, 358904950,
    81257846, 741133562, 488258124, 462319381, 724629505, 484164165, 631551674, 109591189, 345992440, 962755452, 712612092, 472215074,
    640805711, 766166543, 386068557, 838049771, 142421037, 205170156, 839431549, 660865088, 879483582, 813917222, 499553568, 345907430,
    818432255, 379027605, 600770982, 635696276, 542847984, 800310292, 450250416, 569628417, 419090549, 230925369, 211492923, 824483318,
    226081328, 41352545, 775062851, 838861456, 207546642, 653171302, 642100011, 793349202, 279914631, 176282790, 92331198, 324771196,
    364857138, 13784347, 823077252, 104324733, 12769124, 283006736, 525393132, 763242453, 613536648, 619482534, 521846480, 353126427,
    162728338, 686835221, 505851106, 284729763, 348185230, 819970129, 586509707, 698291074, 779757911, 420620004, 372058966, 566112943,
    275715505, 183234122, 267178934, 475018442, 447037958, 542147110, 887617489, 908865234, 374123972, 975880408, 37384311, 213001816,
    22076387, 532008014, 155065886, 345389361, 894973520, 24406758, 565055352, 390498188, 194884561, 625832491, 155688913, 330297809,
    707733618, 160664531, 670508573, 855985407, 281479955, 583541867, 82081799, 974316526, 631431083, 466320416, 206910250, 890019840,
    842780107, 711368753, 281862836, 661556371, 873412720, 236140079, 927932224, 409219176, 887835859, 361779217, 64606626, 805528355,
    115081928, 39335646, 882788236, 910229293, 113410957, 793536712, 823983321, 270550472, 809008905, 455800903, 663604229, 8898154,
    876727298, 237918890, 904715529, 705233633, 265846420, 329831657, 588542670, 733851159, 413745467, 630866040, 203068293, 774858722,
    615908486, 602887066, 35574058, 723362185, 603224361, 580987389, 928287058, 423897336, 320493166, 494728164, 635536276, 283035620,
    100620862, 779578385, 217448558, 155976046, 420383735, 389478066, 859206258, 525642334, 368171133, 698518082, 226151268, 884043807,
    474735490, 472128428, 80084783, 974510230, 583139954, 477535528, 210175721, 776773231, 175040449, 769744870, 110578521, 315259540,
    628488477, 134335939, 80136358, 261583255, 114600900, 729502920, 178060754, 543391526, 587259460, 622043332, 351939710, 622905605,
    132958986, 67465982, 654713095, 833233267, 739181420, 177637440, 697873807, 609541466, 461624518, 4383977, 190062623, 798314963,
    915185525, 319597049, 666711335, 599095699, 151384284, 496610903, 947683721, 885785720, 488069078, 988565961, 750766466, 288621471,
    360209453, 650480137, 836602357, 640939385, 739364872, 573337391, 182893196, 267392143, 333151699, 46927787, 588322636, 860367040,
    795037912, 493210037, 650335766, 184219911, 165143735, 585535921, 1621636, 696481970, 275624303, 961642751, 369978193, 64624294,
    57347140, 768657283, 519623891, 687352229, 955683789, 863479000, 795641768, 329140211, 414706214, 205119741, 501911168, 988886269,
    409947348, 411427214, 78184368, 970923225, 182552135, 318870382, 780976217, 177373512, 156896547, 28168975, 584054345, 592351086,
    518755720, 602690748, 122890423, 608967231, 429756492, 74215629, 70322200, 477366569, 440741045, 959353983, 674587300, 719079842,
    318355322, 437907535, 955898411, 968512072, 86330960, 298649724, 56935533, 64409461, 234150868, 277317343, 151923770, 562197398,
    581076933, 309273440, 984481747, 742331166, 962036074, 98730314, 378646242, 657285968, 89250702, 421683683, 649263965, 194898380,
    586484847, 438180945, 115549212, 606015736, 990814384, 664385507, 493037196, 620995313, 461887363, 812355249, 932782684, 387825313,
    967787048, 221831804, 482737188, 60053575, 38345872, 166021367, 305336346, 168800344, 14881174, 123735701, 186893304, 464294662,
    620293635, 112853385, 697507022, 778687009, 229424210, 714113225, 646283438, 279243305, 335100900, 293680038, 707322298, 32744219,
    600877161, 52797019, 309803877, 565852639, 134866259, 507007222, 693335346, 613109735, 727318307, 320762879, 699225246, 540568481,
    880504589, 613145561, 603379038, 715894696, 517069478, 157451462, 615763383, 652296630, 996275841, 494430790, 781564775, 556223924,
    575443188, 152006877, 596913829, 553296976, 221911209, 587650135, 667583012, 209998517, 932813730, 437843910, 272688954, 153331272,
    3682427, 90503206, 54569501, 883078966, 214072183, 768129363, 915362574, 196214384, 375529616, 119355779, 307314189, 675442100,
    492564514, 647941364, 243603267, 280894967, 631645910, 940015451, 476666049, 947833692, 845431459, 928680402, 954218130, 865110952,
    632263242, 593684278, 176005844, 451186001, 563788265, 895687754, 922210971, 914013979, 40582900, 956801127, 603443581, 891565588,
    905848598, 774350099, 371806131, 232654242, 79262048, 306424635, 762557965, 134009634, 518136807, 418904640, 428988920, 417702112,
    213327969, 683585028, 560276444, 229556605, 330877786, 350093883, 382146354, 946220402, 108331545, 825952363, 334053999, 253513543,
    325195020, 268480303, 392472629, 795405320, 905975863, 665419737, 583990597, 55748628, 755097643, 77356795, 618662002, 833757535,
    718407405, 428297391, 859504591, 81916851, 423277611, 620578277, 378825382, 201676369, 32320292, 628621729, 274271353, 560145797,
    115061431, 750601781, 146277280, 666199560, 734706822, 712690067, 822072653, 926505396, 327227603, 990559060, 594227631, 130566754,
    512376156, 796333785, 544305166, 337676321, 928385941, 23435002, 999444675, 586129400, 832818907, 277850055, 391202631, 51679479,
    83428849, 877974660, 530418386, 273959143, 832885894, 565384006, 949860791, 849719193, 507718979, 93973089, 547711410, 8798541,
    714005911, 184183445, 976718065, 500768185, 566187794, 95355336, 350565393, 221201762, 95669400, 801574421, 402103243, 695205679,
    616032060, 986183026, 286659192, 452262798, 549154354, 639127410, 969884707, 898022322, 966035106, 509017022, 802827907, 808634045,
    899195650, 223718109, 275292403, 333793658, 178488959, 938977181, 417387715, 685864353, 399984980, 621120532, 830497446, 504945125,
    812641939, 15306307, 176706221, 549207204, 978796419, 893446383, 940548499, 643913966, 904215356, 689119906, 450522703, 805043206,
    471558171, 119562681, 577160638, 245386329, 76560770, 489724703, 507392126, 166176930, 125483936, 254653559, 875878003, 37116222,
    871517489, 578945594, 640435925, 531682802, 738406490, 538688249, 165781510, 317266085, 967494759, 411069785, 197863130, 551427368,
    385287168, 221883137, 415550937, 667989843, 878735372, 949779820, 520486131, 732965054, 641097063, 385302801, 307275152, 982770359,
    178186119, 826466732, 991198727, 936922858, 986325155, 177536088, 853365875, 129761830, 711795303, 646394206, 931422524, 663090042,
    113210269, 844608331, 438607232, 24123744, 227177168, 534313435, 643132877, 722562283, 285754652, 759264473, 559603888, 32289764,
    876569049, 935479401, 640260034, 821106380, 80300189, 570702330, 804160280, 293804300, 475398900, 95767760, 330224132, 968916959,
    543660462, 919004884, 635893838, 941338188, 264716582, 634204403, 350614765, 201354167, 151892853, 891801597, 652325432, 837905544,
    953728538, 692212359, 238083013, 489237901, 249531360, 621156219, 391616624, 505520270, 261075150, 894945298, 171326265, 213935282,
    885981024, 842311061, 642085196, 549439309, 782334547, 128946159, 681660053, 401566622, 428113654, 749093980, 232382440, 277063604,
    184928294, 688776878, 131913158, 615533780, 470105940, 529018920, 105965303, 560346951, 419622489, 583960724, 211469880, 112449795,
    629716623, 721506743, 316739726, 256284893, 945365351, 87236823, 876087257, 297378585, 800794831, 276547624, 657201847, 896834221,
    46678519, 989328038, 936915462, 804691428, 575577814, 668610890, 680248988, 680396705, 67530331, 196726113, 926637112, 557914540,
    350759925, 636480036, 961439059, 642218096, 441128400, 28791481, 947290673, 641434673, 229011373, 752407736, 219565124, 571043573,
    389779821, 489222425, 687375989, 414830181, 532357707, 999907693, 281192598, 227756671, 682080976, 607382857, 216629043, 199253467,
    603482064, 409577337, 614153143, 266310291, 522871222, 974545726, 162925946, 364958364, 64440894, 696579078, 547405040, 593414947,
    112088439, 192626950, 939205148, 368206475, 738236246, 616563868, 550914660, 787471540, 979570875, 229998906, 354352885, 757929363,
    964183526, 823371953, 789148051, 869918436, 160514082, 749666421, 106261548, 214562831, 253875445, 943172179, 19118631, 505774721,
    908468317, 222184180, 878258708, 267792955, 367578023, 252695674, 62222633, 82299291, 170537092, 854648148, 817717473, 696136076,
    116284214, 830801649, 807118352, 905058789, 263326699, 688785874, 204091081, 905288984, 925907631, 493153407, 921162681, 221993689,
    865296781, 121749250, 569250793, 276897826, 656348412, 857295240, 816404820, 753364900, 46316200, 181160708, 761137960, 917629566,
    927749741, 669585396, 831837539, 600105093, 80924981, 856880590, 45933910, 807454689, 575414130, 306189266, 35072900, 212176224,
    631777732, 619010271, 866417576, 957793929, 690226309, 417295655, 437515370, 538773689, 578340779, 890487551, 641285334, 527621250,
    603160620, 912049041, 888904975, 774687903, 72249092, 595480080, 598236179, 186335429, 416707079, 733120584, 36168356, 64272710,
    367718372, 465837544, 304203252, 634167027, 737015151, 149993174, 865462857, 739112616, 479396531, 502161512, 436805468, 781451362,
    888532059, 195589221, 712658066, 295018309, 561503963, 307365363, 783237686, 39613883, 420068718, 668605929, 643064072, 878424693,
    205633667, 91389263, 423838132, 746638272, 907329205, 199338601, 716560240, 242165510, 43096407, 312710170, 584709448, 236751494,
    606222317, 524018753, 941695635, 205774131, 361269452, 472423065, 6362997, 186955366, 99355602, 2786816, 774975264, 406954135,
    86205158, 777199909, 103343578, 288356275, 764513577, 238359137, 962342265, 812133250, 693366257, 923779681, 964240186, 944495703,
    895886767, 281180842, 153543491, 727909838, 677675353, 364487946, 406961103, 897178132, 759217694, 869823303, 726548812, 272657279,
    102519626, 803638652, 83687481, 57242359, 541629675, 837368643, 275303928, 327373965, 582815323, 302295523, 921975438, 224834964,
    668603150, 362301946, 534686030, 681573126, 835988451, 415013109, 186580043, 79318615, 144231407, 109591761, 475018960, 518807779,
    732556913, 870112993, 450276517, 745416201, 511157871, 5184755, 745759456, 732806398, 608542491, 283112647, 175959007, 253971452,
    349674934, 670399233, 173851795, 67323430, 392798189, 744519261, 295097932, 70285223, 164164255, 750205732, 793006619, 980430933,
    56610910, 432898362, 945429626, 83192694, 56877421, 952943430, 508683648, 188043216, 309153885, 426295441, 676127245, 584009994,
    561403552, 649112177, 497522083, 659824473, 961843712, 193445204, 979745760, 383387501, 333395320, 390330679, 943075363, 634282801,
    356692989, 402799775, 2442371, 637766562, 730272689, 368628911, 879621802, 593816780, 381014896, 550831677, 960418484, 442395708,
    147543114, 706428304, 78539318, 93518268, 93497306, 86377373, 894436599, 18336341, 545258678, 46464404, 580774313, 541576743,
    83102020, 497695360, 670611511, 39941679, 254203095, 688827345, 485797671, 929395409, 258450907, 651422218, 666964187, 158004654,
    590180610, 74487837, 615798892, 834503710, 517326040, 792894896, 483831181, 531416171, 243808856, 78894209, 679679899, 638095954,
    292690866, 593171575, 292829185, 722582087, 716530060, 971037270, 784277488, 76179251, 63955699, 745534125, 25546074, 296908640,
    892734602, 859995780, 437460102, 176587593, 964173031, 625539578, 167976811, 740615155, 716009492, 957377240, 375743247, 725108025,
    475876938, 175199386, 18912312, 752093231, 909049259, 368040680, 654740269, 584358048, 80753338, 797884047, 380471966, 824067480,
    235090347, 72665365, 116248086, 489183460, 185389540, 995023492, 723044598, 713424596, 328212572, 12139008, 443029342, 614529639,
    300959927, 897038992, 663973586, 22690649, 181861741, 850856072, 84426660, 635578874, 565072887, 119392834, 471108038, 459835836,
    269349111, 117920881, 694631174, 719105008, 9930086, 351901506, 591266078, 188172181, 947155034, 911583289, 330772836, 85690971,
    494191759, 744841163, 421367939, 950346205, 485429688, 408220860, 270078137, 303507762, 437888986, 225480436, 884628235, 559619431,
    193361891, 112041069, 78307672, 844299153, 870045241, 680868653, 356812734, 243055768, 78965989, 295641468, 618974206, 336161873,
    540397129, 10452598, 203141096, 65235874, 114688819, 913374945, 43944183, 871752897, 416190937, 471745864, 149290582, 516539264,
    18986899, 700260865, 283580514, 373833673, 641878929, 925012580, 476750251, 962989271, 993951923, 727490377, 928060876, 268389736,
    856417752, 949493971, 279951260, 223786605, 77397468, 248158391, 833857938, 794410157, 278691805, 390110666, 691455960, 12189031,
    952177787, 654619679, 59903760, 580699208, 995149078, 134441364, 669663327, 71023277, 177995576, 211424997, 329317265, 542184798,
    546737664, 291207760, 204049955, 415030133, 359525381, 635508881, 521470922, 173094391, 797078920, 20522346, 418310880, 226878962,
    534760290, 243374111, 512267548, 415991618, 387489878, 261465168, 136740985, 551864430, 246249565, 465093948, 404447353, 535414526,
    105781210, 138498445, 9393599, 244876823, 451380787, 788718770, 508708871, 199492187, 609369951, 988555670, 577152702, 599149705,
    994066720, 381837544, 837335087, 281886542, 132376578, 439921448, 410267334, 23342748, 867351679, 302600724, 999009351, 91377586,
    53616327, 558077230, 801654078, 729617770, 397864133, 329821632, 960316092, 692198746, 601388836, 895399321, 492782337, 475894321,
    653058888, 292069607, 10050328, 815097055, 707764636, 997792642, 636946363, 188466016, 475710529, 895281432, 457247466, 961959641,
    720462819, 266687332, 476535232, 389540638, 877141410, 737727330, 932527929, 269256886, 20250518, 7040972, 144187113, 23527559,
    440533590, 681141357, 393004255, 466252271, 83638193, 997691499, 475894033, 901523450, 452179001, 188707179, 981290912, 227614895,
    874742703, 644357694, 873700666, 714805227, 818239984, 910655235, 473769462, 173076728, 768012173, 764452130, 511362829, 73360871,
    294093395, 589729780, 969854245, 132595187, 140375473, 518270190, 223973212, 996201888, 94001525, 782186663, 541670066, 566605691,
    791760641, 957055239, 149108394, 561039393, 18223525, 980084366, 613313564, 350869267, 138722434, 919339996, 224258380, 829094669,
    203677373, 427030253, 681248577, 845213838, 508394478, 477059866, 52803946, 709236368, 280840247, 979387716, 121825970, 239849349,
    162682222, 319535194, 510703619, 537091713, 708810007, 623622727, 604795758, 342870843, 58640539, 282399759, 394605337, 317051550,
    53500490, 8209634, 356651346, 397734065, 579087646, 292748552, 651131283, 715902871, 390233561, 701312637, 249076396, 443694282,
    932517640, 271831579, 268697890, 318964440, 262449939, 137833432, 850494148, 70703098, 236519702, 641563821, 661075886, 921212866,
    174924351, 373217077, 9589730, 217264687, 668991176, 349222309, 667321703, 212637981, 612984201, 153249333, 659041974, 596656408,
    451027092, 814470175, 255220973, 640778559, 55068296, 116638642, 901665050, 690695918, 169358930, 366826520, 902874462, 216258189,
    181836820, 755279565, 752236286, 823596551, 710291926, 25108259, 253710632, 885606673, 707690982, 853986742, 135205322, 982978431,
    846462811, 319003764, 217926865, 150575473, 192183133, 692619733, 460822773, 127303038, 403925571, 827696887, 846020919, 795100842,
    91722146, 767221030, 472097609, 578651059, 148321546, 443814797, 974206778, 379643206, 969360212, 281779311, 428275925, 985166859,
    337279612, 132611362, 480532850, 202016435, 442787375, 596828908, 910732318, 501032217, 907387661, 126074557, 792618479, 876804290,
    790381507, 982869223, 183379523, 854359660, 288345268, 699103120, 238575077, 398171890, 924736744, 444304635, 272539559, 28887161,
    81649955, 631890138, 125365722, 460285942, 147065437, 791469168, 557448033, 486750710, 601235591, 245788193, 497355412, 283558675,
    748783381, 224045714, 511568002, 913071030, 237636168, 970248332, 90374434, 395044161, 959401255, 369799134, 119745552, 799144714,
    829199793, 701905313, 428796771, 300854606, 759900151, 360830367, 720243678, 863600873, 669650046, 628823976, 57534839, 316744470,
    619143177, 780591722, 605412290, 619883439, 530465776, 494267051, 960099907, 666503458, 916863350, 511415594, 698996820, 915983252,
    355536742, 215970954, 140200911, 336811265, 249393368, 796368983, 703600978, 273238096, 395378569, 527542904, 326425986, 223096858,
    228819973, 824506127, 208717208, 890338510, 975766853, 866987083, 806880913, 429872098, 284601512, 686723546, 506106554, 664049027,
    742554339, 414659700, 483426417, 773022041, 387934979, 16985293, 894705597, 238770865, 644825685, 72729629, 263179678, 703512337,
    696051884, 448505479, 226177231, 24991856, 710723650, 383568770, 225409880, 489238037, 980073069, 53121659, 591589868, 390456608,
    87700501, 429445870, 50656685, 493790731, 70041664, 388683354, 473994107, 335007533, 915023329, 789129631, 751302124, 491891330,
    440899867, 662252089, 528561524, 41666016, 765603002, 556929253, 192151905, 638449213, 857549338, 242105193, 30846148, 595067934,
    985750960, 201133357, 712492256, 585677802, 310229389, 550668056, 240188935, 704501116, 453094828, 285724235, 16159558, 66634087,
    477084295, 301038023, 747686745, 173916377, 970964234, 255338147, 909906534, 693423800, 167289044, 154535323, 497674020, 891559022,
    755638573, 842609444, 9381474, 273211836, 267513366, 808661191, 686934258, 221450896, 409496507, 792950854, 270458999, 581686447,
    229433479, 319144147, 536859064, 271383975, 106102642, 797153665, 311563320, 320706222, 504277162, 234798902, 527561202, 321944321,
    560303788, 190440140, 565591858, 678318203, 832382252, 983724161, 275270729, 754437942, 230747491, 316810895, 308283792, 962909287,
    278071858, 775549641, 94424386, 291998537, 538902052, 980184827, 3146380, 413143254, 435971923, 925217931, 987575663, 61232835,
    256721647, 827625949, 985235659, 101665512, 936408587, 295708197, 17298472, 996802482, 633954303, 980963929, 590574621, 609662370,
    488449741, 33250534, 275035345, 941874934, 985344369, 171246437, 355639524, 411300677, 340128541, 968968451, 269371209, 680440543,
    863880034, 519409578, 948587570, 52148863, 987459570, 484157502, 949018622, 848134942, 850845082, 567212475, 145398985, 233000642,
    252877684, 913970205, 524922075, 5418295, 95786140, 673148704, 463425480, 721700516, 852253429, 790549221, 616654871, 156076420,
    76626338, 206405571, 752863377, 233608971, 937672188, 550955913, 404049739, 699559025, 3844050, 903314404, 871132439, 451484987,
    471421872, 63457555, 211510087, 816739708, 594930673, 864072221, 382331325, 766336210, 576722895, 868795525, 981057103, 924261309,
    763906059, 856613844, 711056956, 820541213, 638336412, 584324681, 64067885, 563769392, 359133425, 962493244, 20217543, 615550241,
    720772228, 123773299, 491623776, 276344687, 22897196, 641973888, 552476191, 409110420, 885261174, 560169827, 460000537, 238443259,
    99752202, 38656337, 28424253, 586799644, 650557138, 359751824, 50153328, 843422407, 5604154, 964114330, 109006897, 500528432,
    270101743, 854474300, 936088459, 991447024, 999205267, 7015278, 317513796, 336029875, 577706445, 487965024, 634899736, 870108499,
    589217681, 781440404, 852650254, 332148685, 907150445, 131379627, 445630752, 191012977, 297572253, 315183188, 126690304, 745988175,
    736634436, 326477773, 764828672, 886072214, 417528422, 391362198, 120625531, 957402008, 80030565, 454567377, 515210643, 316546674,
    425879277, 354472202, 762840825, 112550244, 631597392, 925582806, 61010769, 424219872, 311214957, 919807818, 963060875, 411171178,
    158772430, 908328139, 902696853, 253480189, 447408661, 432228396, 760370432, 985852873, 651796135, 113684144, 514346172, 586472042,
    945958087, 425277169, 757154808, 679604633, 813783531, 286177842, 422954637, 150540295, 960649674, 788691009, 226694853, 613136479,
    728730017, 733567535, 715728369, 336358081, 839027238, 810153852, 916277885, 933385150, 326120282, 838902872, 960397266, 254710183,
    393705754, 999896587, 79445285, 548665103, 664042222, 40622575, 496458686, 80845876, 82011909, 546127506, 681267532, 643419555,
    392483268, 743636634, 126602561, 155829519, 774030635, 536764822, 53335635, 375547464, 524118510, 847854359, 910191739, 29463947,
    257962512, 76252571, 434539137, 508990612, 661340758, 973313388, 911919229, 617339659, 874237173, 619583781, 225379445, 320977514,
    337958292, 117839636, 283835205, 481308729, 346610677, 764004320, 594499805, 266723847, 336817518, 238740531, 175273064, 834025524,
    274571143, 198391130, 570273450, 55729993, 794645140, 892949207, 597826486, 473447352, 433317353, 476620740, 772027427, 367136480,
    903547962, 6989654, 474777238, 748642137, 689711465, 401799213, 859566477, 189086515, 619628370, 725586149, 215342001, 839402991,
    804329389, 825131698, 795216446, 926571498, 909473028, 81411692, 628735787, 856736536, 538748062, 391003763, 670415710, 3705895,
    481703151, 80285550, 617315554, 146393792, 506391003, 693434552, 358492321, 239785337, 89021949, 375514608, 219267514, 390986755,
    321519414, 920480110, 596931125, 711965195, 591208145, 685792981, 734362070, 605918695, 987659233, 481277849, 784806563, 755466989,
    490319230, 88818431, 559541013, 107340934, 889266283, 275028219, 819020362, 158909934, 354471894, 289037021, 852179226, 569566298,
    889895280, 150244809, 904047581, 888938658, 404041084, 643976232, 128859930, 543346369, 724774332, 737819597, 981516573, 892504195,
    948440327, 414917537, 638133737, 724764251, 53864344, 555328220, 478963124, 141666455, 686600085, 599566998, 623112992, 328186831,
    888356334, 425929781, 50597454, 857372349, 973376414, 917174110, 990534253, 446161114, 973011695, 909636861, 963828729, 733484823,
    58330419, 766086497, 298973481, 483707216, 275870240, 310042002, 59286014, 575893912, 870978802, 856459684, 28664995, 362731815,
    897213794, 892033518, 712299256, 142367703, 68226861, 686259166, 640294707, 504821240, 709520981, 453731385, 22257628, 247130381,
    115834288, 722106480, 385631288, 362689199, 912963063, 900225699, 620895143, 292147789, 347859120, 751954548, 756986870, 105749504,
    807428919, 272861934, 100043788, 871276058, 184331616, 863997273, 25608905, 17180727, 119246611, 240913757, 708326009, 829048801,
    531883282, 833298087, 393908353, 975950479, 908198261, 229606359, 979045274, 223125556, 982386014, 151393784, 474139291, 842262074,
    503491772, 874852419, 547376247, 984093185, 836715244, 860005163, 517951418, 764413363, 221950681, 861068134, 976280415, 108827696,
    22787582, 791650487, 534809534, 574714773, 993702971, 718920470, 889034576, 334363039, 436280311, 507176720, 122388948, 81759980,
    170280027, 950660438, 697541392, 908511890, 65414732, 742294629, 99911339, 209242071, 85138249, 804112706, 834317970, 800948899,
    57010732, 298399104, 730760116, 415008275, 624432188, 439211802, 468043113, 683863279, 21031180, 252458872, 657036438, 332050130,
    377617427, 683439404, 131327419, 233517658, 319531976, 958380796, 288644713, 434690091, 37349249, 242223733, 309414404, 147594787,
    850756107, 381993253, 481484670, 525591880, 806145077, 579618670, 67590977, 128941679, 976301824, 167405520, 931781447, 357997899,
    891210763, 313632183, 526255049, 637643337, 897542452, 167966413, 359693591, 82909050, 372838318, 90707422, 258503331, 883164483,
    788992396, 773573569, 747914457, 707333946, 610341269, 767565426, 924113804, 551403476, 380318957, 973290525, 867520916, 610736061,
    356212680, 1165279, 361172365, 394702856, 977013376, 219525818, 889311649, 983344005, 944760707, 796433842, 568310204, 660886520,
    863005483, 450365476, 946635442, 64514518, 647271523, 511030766, 679994727, 316610193, 591988556, 998934334, 39558442, 126653651,
    930295226, 870529975, 950127462, 854647755, 911050784, 633547313, 536098768, 572292112, 442483118, 173490649, 367880824, 952152940,
    259955580, 368302511, 304024305, 645845074, 893393306, 778355393, 730688556, 851763397, 279959769, 977499632, 233013480, 43093730,
    861228600, 690345288, 219164184, 55376370, 302324842, 17581096, 182702535, 720774832, 552628500, 80284808, 771468791, 940520214,
    227479197, 977354515, 893372434, 735787421, 164081290, 842800046, 691682187, 687714929, 143900086, 857681397, 586631587, 149768496,
    726948201, 953072806, 536508522, 427019845, 552107760, 658894207, 382276519, 457102995, 957448611, 2460335, 752775304, 620046068,
    965880771, 146956033, 724007047, 911710405, 39088993, 876422877, 944007824, 433874726, 708520784, 620689264, 243713282, 337971928,
    950914134, 100834450, 357060924, 684868172, 820582807, 430946570, 554994610, 809332537, 760616599, 561216506, 522646616, 567450667,
    604802619, 890405359, 534130065, 331306353, 498177105, 75522879, 251143685, 2650886, 875743620, 74567767, 231841403, 391924470,
    85866932, 250628767, 845625620, 260258556, 689439705, 617505254, 226979357, 479655432, 647273103, 126924487, 849672163, 745117807,
    582281073, 687938443, 534672335, 620825206, 536487216, 975794096, 907795894, 806284884, 918843153, 101636553, 122982384, 531867768,
    612255839, 464634945, 311069576, 723640894, 289763464, 256479497, 518105602, 764018514, 912447515, 187489230, 618032832, 66941098,
    952275508, 470397711, 926532842, 448439890, 412545767, 22437973, 593361680, 411548245, 12568475, 970445679, 812624895, 398973855,
    441597248, 160596229, 683867809, 231298198, 987497997, 765587821, 108898052, 305970553, 858597784, 403017300, 46188428, 657475025,
    361791092, 720136253, 156361936, 436351391, 235266542, 75455893, 511251775, 239571397, 872870909, 144360217, 54499119, 736433816,
    857374017, 56031182, 829609582, 278421955, 86292803, 780339196, 994132192, 903163345, 464686471, 988907087, 596604885, 523034818,
    392341774, 820203463, 591498084, 430416283, 301837237, 840996302, 338126660, 909871196, 198643157, 578601386, 81304197, 882573383,
    36903449, 109753294, 501916861, 547712240, 817497919, 13600786, 520389082, 597087757, 200156294, 817443461, 934491536, 205097060,
    930169878, 77769412, 551832160, 784880338, 547504372, 433870361, 801032779, 900982354, 505263659, 951786431, 406606321, 64119145,
    126597385, 715776876, 712764898, 847545603, 993256130, 577926837, 246107456, 263078069, 869979945, 490491169, 195853077, 393053932,
    924124592, 885824907, 477121586, 828829484, 944357668, 818114672, 377797453, 442051604, 846241974, 205693692, 27978658, 423259706,
    408853123, 512603135, 999745741, 492644005, 66362463, 230706066, 187412253, 90344190, 34360279, 164045124, 273855415, 143806616,
    581102836, 297662404, 567359271, 270823383, 274595870, 934689811, 198147000, 75109985, 34602160, 41143291, 823846974, 906686338,
    495198794, 184624078, 860734789, 705943651, 900152571, 55027823, 375212377, 244004162, 850717700, 129361296, 284721472, 190972979,
    661584422, 825472584, 532514911, 919272393, 466654703, 99132822, 685351672, 885017780, 582963609, 893913698, 527354995, 396824792,
    974240365, 922188634, 860516234, 70818719, 579456746, 389724731, 705613095, 291480517, 918500417, 700993550, 371101255, 899742828,
    205869307, 994718436, 152902182, 265950538, 812529638, 804284029, 376858078, 86207907, 927110349, 756473771, 427132197, 889725468,
    537378786, 534633151, 97554740, 927844943, 53748505, 596913148, 816141969, 30660289, 332235838, 546770990, 505295099, 324741210,
    949655355, 835231188, 471322831, 884894202, 290573730, 152398855, 146925080, 361995059, 936667563, 853441777, 899377333, 126156889,
    597880257, 810206247, 874547572, 202158378, 504436022, 609892072, 230809816, 841758802, 338905111, 120885097, 219177900, 591767272,
    463583240, 53534255, 420825990, 390754790, 244981863, 241275178, 932900257, 853225380, 835987485, 949213345, 330061995, 389206617,
    506202468, 314658087, 126685277, 381473603, 937298782, 927882024, 256660325, 669926149, 347114095, 458571838, 382198616, 374314691,
    482887413, 283903626, 902762176, 440187250, 965564372, 985314201, 249768164, 236911632, 122843604, 480826639, 807243436, 849230664,
    283570675, 991167951, 165958645, 151104686, 712834429, 301241715, 344931856, 8271119, 991946293, 837703560, 4311249, 823992140,
    404213375, 587168225, 366598691, 635941048, 850100297, 317754829, 39129329, 572789243, 181927032, 309635481, 271722816, 276208166,
    456840530, 914471044, 747829053, 967254341, 711241279, 13146387, 413306217, 304238169, 111583454, 285252973, 839756528, 683085007,
    71890132, 277964975, 857677094, 384558658, 188340989, 456844486, 529419161, 205230297, 200504852, 812423283, 196937942, 882212127,
    366086150, 522883077, 477789730, 471771360, 402780725, 206060667, 175391940, 388604632, 359627878, 742649752, 717749956, 278053550,
    633614625, 658318304, 190375817, 423379935, 55639822, 609737962, 306677872, 746862002, 870015005, 452013662, 940728051, 230108067,
    94571089, 542341239, 558994996, 625172131, 128830660, 154252794, 3368371, 142006973, 265639769, 690876019, 669325173, 551502266,
    829137365, 793422659, 65919045, 241841269, 199795845, 42062432, 345048022, 89693980, 336374864, 771950885, 565061590, 939189309,
    702225441, 208317988, 981648618, 86295623, 65485467, 656589652, 976842528, 820414795, 240186755, 988033093, 748655199, 885870159,
    102936563, 243702695, 287008230, 824625887, 155069321, 485812830, 798004327, 472820557, 549945074, 88923982, 812638260, 287188150,
    487302837, 889690612, 439613692, 867890712, 555840663, 182864800, 631182985, 721080857, 80757546, 545611036, 440705427, 929907517,
    225975138, 649301927, 632492643, 828327199, 660689040, 33638100, 553758411, 368071822, 897394402, 894616050, 470149406, 917786617,
    475497682, 278246897, 135333877, 304534714, 723215039, 323091770, 678066892, 905273004, 300298729, 241102361, 268188793, 539873573,
    289350592, 961015985, 283036830, 710671501, 130495587, 695029993, 166635336, 239937529, 140193623, 491335952, 195049800, 911276742,
    950549821, 712097237, 689987423, 877572150, 979475073, 768329250, 676851175, 239442054, 223565788, 604180113, 82372043, 153035665,
    375279440, 292193577, 390608675, 716604595, 996374397, 315507776, 687435238, 882817038, 542842008, 557285438, 185653150, 772568258,
    135823164, 678745085, 941967239, 426740418, 625100916, 632335898, 305694197, 922152271, 249313032, 822632230, 359947933, 959882261,
    889629137, 402149228, 612413956, 432667078, 41231156, 959940418, 316760743, 322292699, 456851350, 236100812, 792758383, 6198119,
    562300845, 516349478, 796532458, 139636373, 137099812, 877566538, 718675708, 118872975, 515647749, 530927007, 22075068, 943625268,
    8222505, 521942646, 679505279, 980144315, 220176554, 443789979, 121203542, 267302185, 530843504, 69297188, 502980998, 395580391,
    55617930, 448618971, 454981427, 173390, 10525338, 15549579, 993614668, 237610789, 881009648, 251113223, 140432939, 814235019,
    144692574, 297237453, 852342551, 150637628, 80854238, 711777882, 886815361, 93129614, 866971522, 844279278, 821021793, 598870099,
    911135568, 441171085, 566274846, 781005191, 116535460, 732214143, 394371257, 8636330, 942963259, 565250732, 491802506, 207544268,
    459654883, 888281619, 936364361, 832141649, 960800560, 508101141, 323013048, 757274096, 571031596, 721974189, 771472438, 801803540,
    547678344, 484552217, 149679742, 561946245, 158541648, 282082295, 740185183, 333127010, 405418345, 505941800, 849888318, 445566407,
    827690439, 95419181, 919793972, 125490702, 931937698, 806544472, 770681381, 584720896, 490275130, 267552835, 650914599, 194693552,
    211912980, 877502326, 453478745, 871817802, 811585506, 497126608, 169199468, 561811808, 212941010, 841733362, 626492791, 511096600,
    477894502, 7554741, 363260335, 457492979, 151437281, 485221072, 310536786, 354055801, 834592950, 174337812, 794562297, 951903333,
    776353370, 534532961, 400200958, 937472293, 778826418, 589748645, 357973133, 255874313, 701513265, 342717522, 839662352, 91362699,
    796351852, 457372094, 664956727, 63974633, 819181650, 330128666, 999205974, 415277153, 834968985, 947316297, 145163802, 494039723,
    626038959, 369613151, 755984225, 38761936, 431224549, 255585475, 187925350, 348767993, 133984812, 579096626, 584224023, 442115776,
    777850136, 771965763, 127474276, 683081252, 844228329, 29534841, 895468437, 427416342, 788779794, 47245561, 108051503, 575059949,
    220926194, 553332465, 425638854, 629881729, 705496086, 408781679, 594737465, 979787905, 500056077, 850773393, 522370541, 2635787,
    842596698, 603181587, 638617498, 498155606, 18100022, 921264302, 414994457, 836874410, 399230457, 235085234, 295846468, 633231063,
    65236009, 81760710, 617979031, 390333808, 980574029, 233202698, 945721880, 657245482, 432211037, 616590498, 277497633, 814160782,
    548690401, 994719943, 420401503, 9332893, 250345616, 858292112, 850352916, 193355256, 688332314, 402345563, 102378745, 615419000,
    841831332, 248150457, 133701305, 780773039, 83569596, 40526910, 360516940, 365938101, 505357581, 61868794, 597466618, 498771678,
    792900354, 778044480, 208357559, 862608500, 145019916, 146233310, 831863826, 339078620, 65262235, 272679370, 914952150, 681534893,
    68791608, 979382835, 406900869, 49226236, 97392255, 54242834, 815715198, 771697164, 919240574, 14435290, 338172102, 719407415,
    215748162, 5024368, 612770349, 739516157, 138278253, 143416291, 438121959, 259811448, 111729809, 814806936, 405616969, 485292371,
    588076064, 80161621, 196055929, 118355475, 752414627, 682229456, 904910821, 472593913, 190152060, 495451544, 470475891, 534254769,
    878215989, 156046900, 406488369, 149188988, 381161985, 781274219, 78124876, 268660633, 449377904, 826177912, 926249945, 564660139,
    757202814, 120824628, 797113659, 579207407, 926304749, 33205966, 618407882, 580294319, 739840249, 524062124, 380022506, 160409819,
    528629723, 784146977, 483217895, 609864537, 515420318, 62192896, 359944630, 85290548, 55410659, 22940166, 44708183, 223613106,
    528848440, 441192226, 590938500, 475099254, 239815387, 50383732, 146425337, 815563724, 614571423, 317797989, 61533301, 55473725,
    962381647, 561005231, 107759455, 198534437, 172668262, 781157127, 461613073, 150423985, 396393572, 852980790, 276540819, 259315390,
    539482591, 995557348, 231563048, 615540904, 877612990, 451281733, 135886424, 402629279, 817897878, 333111545, 288420420, 711849206,
    52149584, 943223405, 946557368, 573685123, 528046974, 921842153, 921250117, 644698847, 779887107, 316582469, 686359552, 561755654,
    971019364, 418850053, 181152093, 671034962, 370778122, 685024330, 838159860, 48874100, 757971078, 565874178, 5100132, 518499069,
    288577247, 850915624, 970202430, 753685912, 661995, 288087801, 308688406, 833744769, 727557053, 846032497, 148927621, 849579976,
    684178567, 821804866, 863202562, 412510188, 965252314, 799852821, 904871960, 611487371, 720182491, 410301575, 115756881, 944368770,
    49083706, 829547560, 839509261, 343874814, 450923369, 287129212, 222795728, 788004697, 412052669, 575977801, 519489920, 65928294,
    164461920, 311512664, 776864416, 119363935, 716599574, 750439041, 772372756, 276401814, 846583004, 41072431, 408611820, 321921956,
    556656643, 464241996, 948074938, 323312167, 458504158, 529209533, 342636436, 307722189, 214752954, 669987505, 543880179, 136147626,
    930533867, 194879549, 384087477, 353937591, 516802629, 415333478, 818289060, 192211198, 662231151, 798420222, 812359923, 282689206,
    487531724, 332471808, 232670719, 209244217, 590354770, 496020355, 106177432, 966274638, 14177050, 251281871, 917465781, 255952746,
    786571953, 69828254, 412784089, 520579476, 895711748, 356268698, 732830274, 802932513, 51981352, 420247625, 249028631, 747920656,
    699503040, 989719003, 785677877, 16148117, 524638617, 29409177, 158903000, 519412990, 674267197, 529663095, 777938321, 983780924,
    438313140, 909743218, 5359424, 313060765, 411797503, 880491422, 851719152, 421988359, 835485493, 433166321, 749199996, 880810945,
    532507317, 152365241, 885875416, 338886654, 939400339, 558566032, 299092732, 446689184, 915844759, 479754765, 930520793, 299843235,
    484522402, 800166239, 898255845, 144858696, 475199116, 195604698, 265670380, 126553516, 416946225, 172261236, 451902337, 1900046,
    669207182, 932862428, 688335175, 507970964, 157673158, 816633851, 138635978, 545006948, 480037881, 844488153, 628648413, 303745769,
    342674969, 127443586, 968543009, 721929018, 440773809, 570691614, 806380405, 857963161, 264225823, 517542478, 803184172, 151369156,
    960525094, 287797440, 960171746, 678664787, 52042567, 936529914, 330748125, 663463352, 661091380, 375446389, 859709580, 296198589,
    815835679, 830496599, 51896796, 477268287, 576450163, 21623671, 316030416, 292873503, 703882082, 412342551, 111327533, 47296544,
    342680951, 69177342, 518715706, 80999981, 636322888, 170074266, 640326527, 162075453, 500325705, 590594089, 172823130, 141990815,
    249618541, 727455160, 438979505, 195863383, 810351596, 563233181, 802660876, 372129254, 98854721, 493589542, 938414960, 938018016,
    142474402, 397077125, 619608315, 661153725, 472997518, 83809162, 571449686, 205823382, 64382810, 365777498, 661363313, 817191109,
    142866006, 482698158, 353660845, 917808511, 684121190, 499037555, 406124108, 82692123, 191940056, 301630030, 971020073, 634525482,
    900538147, 836571673, 993069319, 886840681, 930767562, 320879168, 473583596, 640988978, 208491152, 886798546, 682524679, 949561073,
    194843956, 260278440, 828836952, 970386260, 376596040, 230719817, 270808350, 209938610, 134150246, 818945406, 804218641, 343056309,
    967307168, 925972716, 987185856, 822993399, 212301284, 842959548, 147467377, 162511359, 80290620, 500498231, 541278126, 906280582,
    665399437, 223318394, 550068961, 559304636, 668831936, 529274820, 548682392, 247716652, 265079672, 793630274, 640072221, 477814325,
    680559670, 368837961, 878878103, 177087228, 264129471, 33002703, 573291998, 173975393, 440772732, 578688456, 826235459, 916181336,
    816852333, 554112619, 993600144, 478672216, 973797648, 160322649, 892669200, 759725407, 190559444, 901673132, 60093785, 97373999,
    252023563, 304199872, 563331713, 528476569, 352077839, 20176340, 856259909, 288691451, 703191429, 614729448, 519613280, 422142747,
    737481514, 768336274, 305110078, 962061225, 721371889, 990495527, 535065217, 935751333, 796787846, 784596673, 395787442, 707810897,
    363554384, 151292825, 148294853, 923877987, 570311025, 487651941, 739388473, 180386875, 443616099, 518821957, 142289460, 727525336,
    607878418, 380048741, 894020372, 962111823, 188751642, 9664496, 742829834, 979051343, 176956161, 792287358, 961787672, 929387659,
    920849948, 987041034, 276884078, 96259549, 852954061, 701979264, 290322757, 616094085, 362768413, 35975521, 293967904, 818388474,
    259870324, 376024357, 632327339, 262388490, 327049837, 617852861, 30417276, 190060235, 454086440, 227843004, 445272354, 253875822,
    604728264, 955545770, 512854471, 734715637, 281761538, 180014247, 751615182, 938870552, 982605403, 437628452, 818299979, 1546895,
    7324819, 247719284, 987545876, 418548046, 981481713, 350629242, 395358679, 378594445, 748509395, 346574108, 782335559, 361010215,
    170109139, 512931561, 836885249, 85942513, 510337963, 350284886, 569161187, 856856409, 870064590, 898701182, 886700997, 460443880,
    319440405, 917859865, 787896230, 580123917, 483362355, 249780559, 502677508, 218394075, 564383539, 949944894, 91235708, 551729610,
    357036754, 592951022, 855545072, 94152051, 43959345, 293244135, 676500146, 929726411, 691149559, 612629068, 745904285, 366838675,
    660960739, 23237511, 916243773, 888491462, 796250736, 44447682, 352712840, 115765665, 710026011, 74596495, 133118710, 776385431,
    146611971, 730282215, 184818894, 116939196, 540481687, 506654059, 253606131, 533616026, 822536253, 733411370, 672374280, 833692743,
    399351425, 205190072, 359665163, 871659071, 468719222, 437632503, 419195573, 604848608, 696055687, 812971613, 487265128, 173891445,
    737705809, 907768201, 480573852, 798694409, 284511906, 100205516, 969093084, 775365115, 211733091, 854715108, 576301245, 470514077,
    24572786, 26541230, 969034213, 394134704, 528004215, 413122197, 151979391, 632051112, 238799236, 195904916, 195276680, 637414785,
    258689591, 147670937, 689054181, 486582739, 885380805, 112826116, 687021456, 905873521, 150371833, 83117123, 56079739, 267681297,
    336254871, 384610431, 441475931, 868358604, 326289772, 895475809, 679169179, 157693867, 9412179, 242775376, 243431190, 660826863,
    831099490, 705281707, 607841245, 596051787, 631119104, 890241955, 427032393, 135134907, 393291008, 238958537, 613243720, 230502194,
    679256149, 553786579, 865570321, 597516049, 754905834, 768003711, 655059857, 456352757, 11301155, 769216020, 149661872, 324999647,
    557468834, 103932753, 834026846, 751203140, 685106840, 873571721, 632442744, 460238471, 184581430, 756109815, 102914446, 317419783,
    276059331, 895906491, 462848741, 24254371, 804464715, 260554752, 978935314, 568815271, 373987833, 421713749, 612434129, 781320714,
    917420438, 175560793, 519565374, 891860534, 861550101, 628044594, 268216810, 660018278, 218889769, 520989409, 245150047, 617322324,
    663745138, 468336105, 618866311, 611102397, 783978302, 318446232, 592664809, 55498424, 888730951, 754054858, 114597913, 323662812,
    952620872, 567531434, 129940072, 502858692, 30355714, 516601987, 348461860, 928074333, 574524696, 869732265, 869083109, 751364602,
    68085673, 924121598, 701898100, 575650148, 955626851, 242382705, 932729063, 284106431, 69920605, 756962848, 904639189, 749228529,
    387836803, 140402408, 917765708, 718587362, 201891321, 338244669, 261141641, 635994994, 934947594, 319559563, 141549358, 138280984,
    561436518, 742227777, 975930880, 685684712, 929517960, 109996099, 528960114, 576692499, 902375479, 156944222, 590409100, 448803664,
    889295189, 629809611, 123199249, 677253947, 251677074, 872430072, 927829715, 315919758, 745350464, 197228952, 428075501, 734604409,
    617827550, 159196824, 518171058, 57870732, 88885196, 681273324, 632587777, 714804777, 929992902, 722909738, 546644488, 442856870,
    683108103, 28173182, 883141970, 598059467, 538970237, 345224412, 278100553, 73762321, 327449643, 987152789, 257973459, 224135737,
    730585078, 218025571, 76356828, 463205500, 484245174, 634730951, 56325571, 351052002, 776173050, 58718051, 372355235, 542787057,
    338329145, 959467804, 668214742, 693925833, 781204871, 44378981, 174162613, 99216685, 401748926, 163094077, 317808647, 56617258,
    975561799, 995836731, 753324246, 795181101, 445228448, 322735741, 140553846, 870205752, 717231285, 612495525, 79931221, 448058892,
    447105951, 569766460, 83632461, 452665491, 64854957, 999556072, 397964408, 680397622, 343076027, 123863294, 755049598, 935603208,
    648533142, 994787621, 570790289, 262282636, 704813586, 765586969, 41323145, 503405777, 866105405, 186286924, 118523992, 860507131,
    120482303, 430834106, 957788439, 723274536, 347885063, 244044996, 280309857, 234905911, 732179608, 748502042, 316325225, 995973201,
    890135163, 887357531, 686145590, 38732774, 358778763, 112025225, 819482689, 130571540, 631492464, 18499337, 613361379, 309343848,
    755558554, 725531911, 355746870, 64982395, 818507010, 872665885, 562318671, 945790029, 345986813, 231987273, 177515608, 234858295,
    688087849, 711962156, 75678127, 538752573, 867432262, 608285090, 306194023, 789914068, 707921081, 322627886, 797510365, 660797603,
    496052444, 391055817, 353978293, 547867090, 361948720, 987607706, 370615365, 321818894, 220700041, 364576637, 171026815, 987244578,
    662078078, 546662228, 68972808, 590228166, 65121079, 717606567, 922590040, 677374257, 380541019, 110950975, 91847853, 389364692,
    208750563, 509012412, 494463853, 445188450, 527813298, 342181598, 920811736, 320809104, 737909625, 858687578, 421194209, 629386642,
    375527864, 280798794, 257803553, 455531237, 488181754, 686575665, 712808349, 966020673, 885377474, 592171927, 486769340, 951215758,
    869059134, 761966491, 964751970, 776376658, 392319145, 702535359, 583763789, 755243522, 681249390, 935386674, 794791445, 771729365,
    721845141, 694133357, 66690273, 589546567, 919863382, 101477272, 567490605, 665978167, 566019303, 76890413, 546805670, 384754268,
    145694680, 322202235, 845572845, 571816272, 865231695, 165917650, 23861286, 756789999, 424391700, 259086021, 999065128, 829885748,
    405864446, 490284969, 724078810, 693376683, 554284218, 834481609, 626306472, 401265316, 258679438, 120850195, 146809787, 362324485,
    359811583, 849733023, 913885539, 382915295, 470188515, 296252939, 962552425, 619862903, 576388228, 975978123, 101085661, 77853339,
    352673369, 642585179, 744606759, 908211589, 942849563, 619682124, 713686827, 714991953, 151803154, 169861767, 997263005, 39195902,
    80042405, 593129723, 829902050, 903373288, 48793936, 598308930, 554817066, 884655843, 405526217, 702165658, 852628241, 897479667,
    540482360, 104120089, 719897666, 854941296, 536955185, 113974200, 964365930, 81359047, 77433668, 755042121, 151887130, 911116330,
    82550039, 646383983, 537104312, 79521016, 604352071, 591883749, 81234162, 173479815, 657211941, 679576532, 585848269, 130404652,
    392084926, 180150871, 988473993, 385970165, 498816017, 883954404, 421901939, 773882907, 391362536, 99136783, 785788843, 52481288,
    284264523, 353516570, 949015673, 590679766, 431698432, 291439829, 120666527, 633107636, 880955384, 386273878, 714551916, 269794858,
    711006969, 791481894, 464484982, 934195159, 498893251, 367724327, 289232642, 381361000, 571730500, 1965982, 482541422, 95717681,
    782224205, 571428577, 62610737, 906794150, 810820103, 157597767, 54599111, 347843477, 966859671, 800427680, 363559867, 347337398,
    139930498, 464256361, 166050593, 826415045, 807242475, 642100354, 838260427, 188398137, 167082063, 579627630, 204727733, 917964905,
    428904152, 228151456, 551299991, 955185413, 611948985, 665185420, 556995835, 604016096, 788928198, 203928955, 693704237, 920565556,
    577364232, 637446406, 318357849, 835808601, 990851658, 378243254, 762215080, 613605849, 87385333, 945017141, 100689960, 307337893,
    789946016, 21657104, 114986756, 576755822, 720582116, 521998066, 830365571, 548337762, 28878427, 911525930, 276796554, 246917088,
    334759694, 179543617, 934338684, 296352252, 734262438, 331413224, 344123283, 835697188, 341675513, 483175781, 168524148, 918767419,
    768959711, 924158025, 193690358, 816447135, 779782550, 402267510, 698019118, 39220980, 265501231, 514295981, 232672588, 317250148,
    392743845, 789513485, 338745097, 578494633, 498116416, 743870634, 250928637, 403816730, 570152371, 216641791, 731893420, 834306000,
    706917882, 385689035, 379343336, 937826884, 119940728, 227503241, 801739286, 85085106, 980016535, 668364716, 21345209, 362520966,
    23547211, 663479726, 388468663, 312250744, 114571112, 28228440, 997216186, 579020424, 386723838, 145561105, 570847513, 866595035,
    693601137, 437830168, 522868766, 287930565, 515454426, 948797177, 26562821, 869094963, 829929409, 249123247, 174031492, 935866445,
    993605480, 17128, 568748425, 224091486, 126124047, 687335366, 870967057, 138589495, 979773076, 431656291, 999979492, 464287943,
    367961757, 414909716, 788975218, 390170901, 748138289, 64850267, 46917824, 374034849, 73391797, 630251666, 358119851, 315197810,
    692193382, 835874328, 63127173, 991206255, 499206483, 310835696, 634447280, 714644476, 541379363, 362313930, 213121797, 663482546,
    278884549, 891926129, 695392399, 535357067, 354606255, 769463814, 229266428, 631394084, 553954136, 746281536, 109518462, 795169396,
    431676048, 378434967, 498632137, 508627295, 593277399, 699371649, 680797765, 75847808, 728363443, 477447218, 287082669, 210966566,
    643271599, 324689056, 959026987, 318981752, 922953415, 285954662, 272516085, 811318897, 19205950, 879536195, 392873983, 210664479,
    139590964, 400500275, 330254519, 321470239, 335073473, 227763989, 813062241, 161685253, 506978037, 295126338, 235504513, 360641393,
    18631488, 361967281, 464946375, 610957757, 160183819, 16275323, 928538019, 143195643, 459761707, 234568657, 582100157, 964359929,
    601767178, 227610667, 409362872, 720293298, 157159263, 419796889, 345106625, 595789195, 668583155, 402985929, 705992094, 186410532,
    612078812, 684598439, 150173772, 766613196, 40350979, 133502977, 13930957, 292795059, 340268397, 394156869, 603835971, 648649466,
    87596811, 86557424, 366375665, 777368437, 150462323, 110323896, 644222839, 390129802, 873505159, 37102978, 840884488, 820662044,
    794241732, 844385975, 81019169, 293445159, 182481162, 200312784, 89379926, 526641221, 59768345, 54440495, 172284422, 345087543,
    610968029, 247617684, 12543371, 592465748, 826258704, 254275855, 236497679, 966334488, 181291780, 879959891, 8680684, 146309238,
    700466487, 572937852, 954621293, 293040996, 132827545, 270497440, 400577307, 658473699, 812815772, 991386781, 916135485, 504384881,
    159621283, 289942544, 919852379, 669566929, 970354131, 804374195, 316223203, 206852784, 439006507, 265766222, 622069483, 270314711,
    571090098, 220209345, 989287582, 217231751, 21979343, 217207942, 955221104, 897386449, 47027475, 967544599, 339324976, 248318052,
    117502364, 832538181, 499609491, 649734490, 671780454, 925566240, 864690446, 914875786, 944503632, 173886021, 244108168, 266870953,
    548044922, 7310569, 665700252, 313960701, 525545453, 995243561, 504789463, 335612332, 484310815, 786918589, 61679990, 245245843,
    359916049, 672315197, 849447041, 716133893, 78293568, 316323023, 606674761, 97315249, 596008759, 238783365, 251456371, 58792035,
    543253988, 752527776, 742885192, 324055259, 423207666, 587186588, 375803647, 610147983, 542536247, 91211048, 444790462, 228561805,
    125384407, 874678253, 733917315, 36032975, 717543963, 913282223, 912385603, 269761868, 615875146, 581488416, 344279749, 578866042,
    241545016, 151401616, 174146408, 262955729, 73974551, 554715645, 69974607, 163993542, 92523447, 648488554, 398395616, 295384093,
    696860203, 32706309, 89681800, 797064543, 226831212, 200560285, 846346158, 74875431, 678584277, 696271249, 519047326, 571685201,
    698024197, 115124181, 172735951, 724222787, 100600390, 983205989, 21916538, 695740618, 584581534, 780273554, 631131263, 472763675,
    964816633, 768957952, 990269058, 357181574, 365441551, 969033956, 381261168, 417694460, 977512744, 513400450, 965363071, 277349743,
    877659702, 547339224, 945987164, 473156277, 218087973, 739482770, 920276848, 891773564, 280410342, 452297503, 125781209, 391280094,
    432334882, 50083345, 745252690, 289920748, 483083155, 83554853, 266541605, 586610231, 830651192, 560906797, 781266906, 636260592,
    789952990, 460922677, 181292390, 45170253, 92474745, 695030022, 570153339, 187325100, 631715560, 719648413, 509385780, 584571415,
    825027063, 145068505, 721477565, 795710983, 751080813, 135028446, 918931250, 368761618, 844033027, 719351146, 691950193, 220584716,
    786084743, 950910217, 371680377, 452780495, 815599038, 613197804, 769490264, 900772325, 180490331, 731930962, 920316587, 729244595,
    11967247, 948729318, 967270962, 314923846, 780934104, 935049747, 252913957, 391416072, 607870956, 476263852, 873666987, 271727080,
    692778453, 671309282, 563851343, 141260627, 663816542, 744999185, 502164887, 7328870, 22065334, 83839517, 309666966, 678951815,
    580809762, 70306002, 74665100, 526194311, 921396917, 25883777, 311077133, 454618947, 845536841, 287405378, 708591161, 926207547,
    290036646, 554216241, 75135829, 345438064, 438471298, 190734102, 344532074, 419033441, 320539547, 325368845, 602212840, 702495979,
    509402292, 249030940, 639550825, 34266302, 550650756, 980650386, 50249033, 371266126, 429804877, 761140299, 624135793, 295411855,
    6894309, 825572594, 1827209, 680790191, 983132144, 758728649, 90489685, 34234981, 486182678, 373468611, 471688655, 737689943,
    57705598, 422654095, 807561318, 224073330, 444999956, 752623395, 886403275, 260198210, 692292709, 314857521, 96837327, 744254305,
    172664988, 371193628, 991755445, 386335414, 464172093, 246260586, 151425148, 694989966, 977281393, 515287288, 993391257, 608796784,
    613609581, 925036512, 662722253, 340622371, 348450155, 16203065, 761956192, 609930871, 606939524, 942853811, 42374875, 660213066,
    733937076, 142260107, 8545671, 829170720, 487599092, 98949857, 148423567, 990333544, 200581443, 865977563, 186574664, 578221198,
    632547163, 349238920, 859933885, 403253054, 11899536, 935309640, 888489784, 115272263, 348682602, 218097630, 836713255, 659051822,
    498288611, 743394367, 594052513, 237879566, 146505476, 747210809, 366972660, 158387668, 791086813, 259925190, 663260538, 177611737,
    494180275, 487812414, 987297595, 44292743, 410175699, 79256650, 658580659, 759301, 299315459, 206109256, 8391865, 32171645,
    606368584, 301364359, 142577066, 270257101, 297331382, 312781819, 454266050, 566779417, 455753858, 78945280, 583437412, 304245868,
    239355487, 456431294, 503746934, 475611716, 931370116, 676338730, 855010241, 265928409, 478347149, 847952667, 908332817, 276466057,
    979728966, 959144424, 813139638, 725800150, 76445797, 935383623, 4542929, 881031779, 913016825, 226901930, 309177484, 557308213,
    363076055, 218129082, 885977080, 757477529, 703220579, 921111495, 34559576, 612462633, 864704105, 35490659, 491130144, 562643904,
    294963418, 720620179, 617759388, 239892806, 961682852, 942453946, 10619865, 912439679, 366127950, 919739072, 996004408, 841455640,
    884819298, 690931350, 23136966, 236546347, 459822695, 590300841, 71604017, 755895375, 440338352, 166377472, 385027428, 353163080,
    462075920, 901058900, 639768454, 450662058, 651522572, 284007995, 735642936, 107136613, 412380292, 343758451, 760845271, 985285965,
    968716181, 257271398, 31571866, 540090474, 285715018, 356254048, 230325964, 851733187, 140203234, 47684934, 685151391, 648118421 >>

\* Math.sin table: floor(frac(sin(x) * 10000) * 10^9) for x = 805518017+1 .. 805518017+1300
SinFracNameA ==
  << 262700176, 455052, 622051649, 117005368, 25044742, 194456864, 200695284, 184396091, 628625035, 174593475, 675133340, 942434460,
    343574277, 835142101, 964945868, 653221705, 611723331, 367414271, 379861671, 338477699, 286307872, 190064233, 885683709, 348161551,
    618882396, 550404560, 520716777, 876493624, 849099023, 685112107, 628939553, 279569688, 638677492, 977766539, 727410172, 192898457,
    314274814, 471856890, 339936398, 860807545, 821890312, 588339363, 221275074, 524821010, 248262998, 179930611, 724623890, 537025661,
    164765118, 547598437, 324203905, 110812433, 528863697, 49682810, 478706413, 784567820, 427356885, 259869131, 619711886, 152649247,
    305201208, 806287859, 266439671, 822385655, 265204926, 416336059, 332649695, 408415276, 342833916, 622591148, 925144442, 538549440,
    278469342, 421546519, 892101535, 837596475, 978521830, 776889963, 193155189, 801341342, 226429345, 471271781, 457380183, 638167987,
    358054141, 425618758, 247317336, 982699281, 374444221, 893663085, 183293603, 968798833, 202902073, 859820229, 343868619, 724120517,
    113995424, 58583621, 983797555, 331557974, 410083705, 628724180, 153948949, 658309237, 367756687, 798965181, 301778327, 671427492,
    248092845, 281786550, 627533454, 906963415, 692490629, 690809404, 457764880, 262494680, 807734107, 445851742, 447048207, 261847111,
    640208516, 896364639, 763835512, 444640384, 232523518, 456737514, 223996965, 889163088, 756856769, 882644182, 241630439, 786544847,
    664394624, 196584156, 34269442, 396520440, 86168596, 89344496, 267831215, 74896140, 430530871, 200979736, 143554454, 533092273,
    284238964, 983898320, 620764696, 185398962, 762704387, 290606560, 463303009, 916048640, 290445730, 815915848, 746738872, 788807757,
    632017328, 771333849, 171999622, 89782372, 428266123, 707252161, 247538401, 553128790, 670850977, 386294361, 446480102, 80287320,
    279593746, 413529656, 676839042, 668556163, 40423389, 928560906, 148747429, 907274590, 142153808, 143754252, 313010354, 803447156,
    761012828, 195046176, 105203619, 214110755, 524438097, 475573001, 910606258, 339279709, 43281064, 368213678, 72974512, 748168845,
    452627998, 226529332, 729339693, 587510709, 447719046, 47387772, 665784740, 998829975, 126334103, 881375296, 121526662, 61206393,
    130469446, 154584476, 247880766, 713230526, 118073780, 296353442, 247142683, 665149518, 314976984, 327872908, 853683809, 30944938,
    229975161, 531702888, 913228672, 316646232, 832642669, 790345284, 54214467, 171902028, 173634841, 136465773, 866065044, 193115500,
    441128167, 880083683, 237078415, 700666553, 681644628, 825110010, 563084976, 359917982, 399392002, 552224988, 79121747, 717881693,
    775332246, 4020846, 359312429, 481808895, 141127327, 39075459, 360263645, 216888684, 903782387, 736313737, 402948084, 744922590,
    29997712, 675771152, 170899849, 155483496, 286327231, 186945423, 793021918, 30744436, 345822559, 659602695, 479679239, 987267186,
    761655584, 191623361, 291808216, 483280007, 270003501, 873822042, 561458824, 63625099, 225440913, 411251188, 74607677, 568251849,
    194742246, 398631094, 143277409, 32989968, 564153627, 213376253, 492796446, 340025921, 328651401, 712779571, 801093836, 182437804,
    642860417, 263501260, 942350960, 596266678, 736680826, 400549496, 668191417, 651955644, 455224692, 573316292, 221849467, 506948631,
    141631938, 978882823, 534045217, 722169929, 407359005, 279001677, 792766257, 892603144, 955852328, 402931467, 58935708, 718053786,
    995873400, 368024454, 203388962, 877701661, 921630892, 64835084, 374357258, 893502776, 578965912, 133410927, 865391517, 778769034,
    907375018, 155874107, 951431190, 487593755, 162971848, 199765983, 964039601, 45341782, 598784336, 574638863, 922134783, 238080940,
    616681821, 95062061, 999654063, 439059561, 442822547, 37281905, 403109397, 674621053, 829228301, 692781916, 116634469, 159219943,
    433054796, 355860396, 797236255, 6986392, 442749722, 479672121, 387948341, 855779915, 296801855, 580685444, 804816361, 687738365,
    573353506, 835616424, 87032137, 628369851, 831688156, 74659732, 780909148, 607676478, 388835630, 325834746, 437019435, 195011047,
    333500865, 490211467, 820207598, 15095052, 976947860, 993387403, 354150041, 180363025, 530347523, 767298874, 353985333, 111941949,
    42309630, 115470145, 716816516, 613007724, 297819461, 318704114, 581346852, 395659339, 440451308, 855369283, 437932476, 305623850,
    250713008, 477290012, 310394661, 875105209, 118165970, 474132443, 379654767, 546443034, 223651332, 717399388, 162894506, 725301992,
    951262864, 268149797, 940938159, 529167398, 967644830, 669616465, 932486342, 497468351, 895340366, 608468853, 340811694, 36238356,
    746207593, 541552441, 293103319, 460423565, 463289382, 364400973, 688454140, 677286357, 303639305, 855177299, 164126042, 276060695,
    496490570, 847678549, 969403250, 485002465, 446155509, 741959555, 659812162, 764604843, 408946956, 451254627, 857010477, 753773440,
    405179753, 11419683, 942766403, 506821627, 914940624, 703013220, 551779360, 137261415, 937025801, 760201125, 396196396, 551727732,
    602254711, 133836468, 421694121, 430909892, 903469637, 578004786, 496230766, 53296328, 876237721, 241839129, 793855723, 114840568,
    400172660, 833219560, 960962383, 142750185, 277184291, 303178961, 745211181, 617191537, 374724753, 271704881, 322675335, 480496381,
    465834745, 979314361, 407963809, 360908599, 947486720, 457042861, 57709229, 468632311, 102911286, 156339778, 509957320, 622161618,
    688998028, 784314479, 203110213, 817738380, 789294808, 597666921, 196995806, 682871593, 250473116, 665387601, 889447092, 32022306,
    412728104, 421392365, 256017986, 10794884, 337539522, 117845094, 911405682, 179447964, 324721237, 120332654, 130058146, 516962278,
    13720878, 505715375, 459263064, 589285940, 882418937, 583755809, 683672447, 435104177, 514211837, 530380157, 627624366, 72411456,
    897188418, 550121641, 941572613, 995640712, 156299937, 873435066, 97972434, 946015306, 586947483, 952189588, 65914950, 720765762,
    509369715, 827918910, 393226665, 929138921, 869476856, 211454989, 321496450, 338223139, 477798147, 160304079, 588910362, 853278604,
    101450605, 194053046, 700871712, 689324368, 219722710, 172061837, 154948687, 809520230, 564413010, 508476945, 304491006, 144718477,
    969899551, 777779270, 95528267, 401488372, 605060463, 357378325, 264196406, 877893801, 289719465, 785930536, 536841467, 309876254,
    510173621, 128008724, 724490287, 532183025, 649247340, 196557692, 88841803, 800933459, 99531922, 498832488, 34341944, 296093429,
    415825134, 719532593, 704544723, 387649123, 153187965, 815505005, 462838535, 525328113, 140153896, 495823101, 217475148, 678782092,
    67033785, 934489073, 995513218, 30987369, 980796257, 356589914, 278123067, 235367531, 587938096, 848700336, 601987306, 431994412,
    751200843, 421817008, 263265231, 757046716, 157548651, 219864386, 870906923, 385543079, 109266083, 886135642, 408117501, 434696288,
    915677678, 506373814, 220175441, 13402620, 563043694, 658771721, 169341814, 788320858, 845473154, 137439661, 26249945, 219144224,
    493214492, 406846308, 844936830, 971577446, 426686354, 49384837, 516522835, 181356387, 847585968, 353473606, 612315483, 192889453,
    314761661, 94602226, 376406916, 812630376, 687766570, 792422808, 247391193, 578634267, 964495723, 684503173, 570615923, 690478345,
    533935962, 907255942, 970301820, 195979945, 898234221, 114673051, 168382949, 707800854, 425327841, 869632321, 407853177, 313919700,
    904147132, 356574189, 846758288, 409427548, 113785927, 413337083, 275229522, 872247469, 551986380, 953259017, 701553556, 136731400,
    934947418, 881829073, 653389794, 229794942, 541391537, 374668924, 966616114, 307711051, 618539473, 766469561, 594611013, 827438406,
    221092752, 605830495, 76664778, 893070127, 255846654, 105554897, 132250340, 659719970, 452922160, 903358526, 860692391, 713668579,
    821675432, 781270913, 25731637, 405939727, 216584186, 273370683, 599481285, 658830326, 128062846, 641535681, 114640010, 162039297,
    175552261, 495743633, 441063799, 387180556, 383387034, 472748092, 998261547, 965582863, 639707194, 21099377, 683501872, 856047610,
    127549807, 943539795, 20384773, 388891638, 944682791, 415541564, 927026087, 230272512, 140115337, 286788192, 135302057, 426598219,
    635190578, 644413859, 894404033, 647231798, 949318113, 263328716, 566870220, 910242303, 824144968, 854382057, 1518291, 583736096,
    327118054, 703673537, 742351417, 5092979, 240988318, 563394744, 20537204, 47800546, 984998924, 333552105, 514299325, 804835247,
    41057733, 982386784, 699868958, 403030113, 516614353, 495983315, 662318372, 91256407, 584253679, 5379354, 736312067, 450821376,
    346051082, 84548258, 366966930, 971178603, 397538911, 834142351, 469351911, 230132724, 111496714, 259858056, 803563096, 636408460,
    58693888, 42209060, 112744471, 756494924, 850173317, 303272068, 118000672, 295976216, 793873965, 145677045, 783457122, 310292481,
    250095962, 172317100, 611486764, 67373862, 495804991, 876045329, 486451816, 166760558, 578380817, 498311281, 770430290, 394094089,
    542203767, 336103423, 645314670, 965745744, 888796476, 505326248, 77821244, 508836610, 875793626, 815586652, 906774485, 999783260,
    946588781, 247721441, 125403678, 354189826, 692763747, 910014720, 806480936, 611584212, 817367602, 294910825, 521334396, 222389883,
    844283583, 98028913, 398332598, 597592239, 653058040, 583573558, 669510461, 532653287, 163530875, 518879920, 933997520, 220439727,
    661116361, 72912066, 350008814, 515149732, 48462958, 35715654, 173257652, 883935619, 693903862, 571907926, 687964834, 509012928,
    17579056, 388381829, 9079651, 579215061, 587332851, 650107551, 537818254, 265309520, 741025626, 528336002, 150572551, 848871882,
    386017319, 552373437, 850194964, 558037846, 262394042, 76196794, 814762123, 277069671, 751008873, 209572320, 866556684, 543645000,
    940126653, 616561, 346958698, 631052580, 990408281, 654055979, 34035661, 505696643, 433560441, 874262769, 98432042, 892827019,
    504118518, 608847094, 870932264, 817872603, 950043692, 234661198, 845724238, 749718917, 946117211, 599427390, 495009969, 679170722,
    534347601, 628902565, 250498998, 716592791, 735159991, 677778389, 592484813, 763851716, 197307831, 143799472, 882043184, 461997305,
    431553051, 440664096, 14245720, 888865501, 514909679, 609662890, 547596815, 189306761, 689775321, 379125929, 762001090, 565033154,
    740810683, 629197678, 957010329, 920861537, 765260989, 230645225, 726159451, 343234260, 997852997, 231001447, 825316180, 141397154,
    289859728, 356433962, 174012180, 715679340, 649049335, 83241437, 501301200, 826848465, 770756303, 792091326, 34251744, 302096884,
    883866605, 698822214, 499262913, 148357057, 131708544, 640547287, 849680706, 310643995, 363337690, 442727107, 140092549, 25307226,
    80591253, 270910948, 467250327, 589843921, 935927834, 700493465, 860605747, 294816095, 425784693, 496020954, 747759388, 462670474,
    607853119, 93060048, 228606963, 910417265, 581846577, 914519050, 997564240, 800192677, 693502368, 970093241, 728194520, 433855776,
    100144378, 784516994, 994419424, 41318355, 350700081, 179108914, 877549102, 969930168, 142598521, 595221476, 919510385, 51155108,
    193313991, 998274248, 701096141, 92116804, 96942176, 136600385, 211692898, 653133522, 392720962, 166785120, 652179931, 800599698,
    711725618, 945188730, 588526558, 781313246, 57337578, 306589071, 450535376, 126879688, 912498458, 412976035, 602169911, 639012016,
    307937775, 670780860, 348136242, 740150891, 142042154, 109292057, 563566325, 930347308, 272310061, 647878938, 941618305, 342569675,
    328525779, 828693500, 767904870, 667861825, 467401080, 371709381, 902296615, 520537270, 385238694, 172054523, 384627907, 795515821,
    672249595, 576281693, 247513909, 738302307, 396045635, 271620658, 129905350, 876976784, 49517352, 92765165, 891320198, 986139457,
    648433495, 113296305, 108991634, 908266903, 629900451, 142345377, 844224164, 574230676, 227607193, 510204890, 836809338, 907388789,
    617475708, 808458884, 735334543, 230382343, 137601371, 617901351, 310949353, 751504658, 758768939, 778874205, 691877954, 343338224,
    814925679, 33996863, 497141465, 604303998, 709616184, 116393160, 848980416, 410905748, 129819407, 815535066, 265093788, 246001411,
    35408875, 560627474, 928794701, 874419981, 980848832, 121866498, 714363186, 871624615, 212989425, 968851526, 766168626, 800632974,
    710319810, 233618713, 953126954, 761847420, 391961385, 442242942, 422690635, 248265517, 102731371, 102786862, 298600700, 358310707,
    667229313, 639124887, 71271939, 289931941, 696136701, 66959183, 635076575, 943499388, 142443364, 588770792, 753999753, 349749830,
    167598340, 785240346, 43240151, 929319017, 510874735, 907873970, 281036309, 140659482, 255768342, 9897912, 78055598, 848398830,
    536453081, 10233437, 2869004, 400825447, 765870817, 926261677, 464480451, 796803829, 103590098, 639760034, 928217388, 248184094,
    851716844, 475377648, 64230010, 709399191, 581674554, 28222764, 308343636, 337596012, 831569938, 656074157, 192263051, 980559728,
    195490668, 729523931, 582162780, 415195560, 407858213, 43691880, 723245600, 803648562, 759355019, 132005834, 916891618, 342758599,
    857289446, 906544525, 311005612, 385957141, 2213006, 596414242, 607726006, 854390225, 746240724, 734710645, 701905266, 537537101,
    322886925, 38815164, 245701554, 888632719, 759133458, 314261423, 769816653, 80095694, 657184107, 617119808, 719233133, 237683623,
    39112795, 621455733, 819402269, 190808305, 600173622, 613275112, 644426799, 846988673, 311829707, 802399822, 516857251, 705003858,
    569720533, 407392276, 455656642, 12238590, 484074010, 109573548, 419833179, 644200510, 211575027, 864508827, 369721290, 944838356,
    219980354, 298055869, 548664823, 947861025, 639290608, 271253999, 756410932, 246304487, 900785855, 360065158, 150953630, 67002768,
    625976454, 211157627, 479227921, 304955684, 858251985, 874006041, 344874691, 780304962, 460800520, 919905786, 886458416, 939616992,
    941774608, 455272424, 399103656, 913704486, 100272714, 320662882, 421944405, 759245020, 587239847, 689472868, 2398117, 21208422,
    339961285, 670316347, 502392755, 827596011, 616867263, 834428343, 470953784, 779522059, 854473550, 93606272, 932542211, 184250678,
    243840691, 594938122, 111213566, 492433393, 517249319, 943812810, 220692741, 321829830, 652766053, 285040465, 58735937, 970641151,
    504371936, 251596730, 897711804, 284758250 >>

\* Math.sin table: floor(frac(sin(x) * 10000) * 10^9) for x = 1762301399148+1 .. 1762301399148+1300
SinFracClockA ==
  << 326724376, 452728587, 61809890, 918235361, 909555413, 480073537, 133684278, 911999773, 172008990, 44198431, 119308463, 671246325,
    948975608, 417967821, 949000103, 486356845, 84617975, 879084756, 41803879, 207116207, 580618949, 170885536, 6384902, 742129281,
    908850973, 207851799, 837895736, 188937240, 683105552, 671894706, 251738408, 552737915, 618368636, 241794888, 932219511, 976377579,
    238259058, 11833641, 797957422, 498349262, 470876443, 390106918, 743502601, 675344413, 969327225, 1488, 743576386, 402384411,
    587239318, 592226058, 733373984, 465504079, 790073042, 632117511, 23203210, 473190284, 405380020, 157076528, 845425101, 254958965,
    875168116, 959726619, 282993538, 384590930, 987120450, 165661932, 742846754, 313964343, 976728393, 253454233, 821810589, 181355292,
    615421143, 669311816, 696997282, 401719853, 962058995, 189886907, 38722328, 176117656, 793451155, 711797641, 900915674, 753461345,
    698995654, 464620190, 220596232, 302792384, 860439539, 322892373, 934365174, 822176538, 928170378, 485443438, 272024987, 930170988,
    292573084, 345204210, 419732507, 762914404, 735038150, 29628621, 851586697, 89304184, 868837789, 355326510, 580804150, 66478652,
    640258176, 922541572, 217413883, 82505353, 519061889, 373236309, 169614394, 412209170, 602711859, 729513309, 235730736, 127717247,
    837563273, 674434819, 273712551, 220059757, 213009059, 340388071, 820567674, 720656194, 879901038, 17845052, 423410865, 155141615,
    27046355, 476768791, 667021647, 157737075, 878026543, 120899683, 762003791, 358189793, 723538603, 178847701, 259884388, 492066953,
    934712860, 80477767, 19191106, 412811, 25829377, 11858630, 916652806, 286724396, 595296183, 467298026, 402673273, 992356107,
    503403085, 587530364, 935726745, 919972600, 632132993, 800145407, 824209746, 735830088, 294121569, 743547711, 639936982, 63063003,
    445406525, 887066311, 597051588, 453845915, 31712098, 15449418, 296727586, 207054379, 496986522, 517051258, 973594623, 388277606,
    382294937, 460476347, 216632303, 802074656, 126394737, 127459227, 494194479, 612785257, 2147898, 355048522, 399580568, 998340950,
    305667311, 875528792, 272884827, 80044620, 907403918, 824831193, 270362424, 988076117, 898105235, 917579268, 174749529, 742405765,
    689886484, 828537682, 419316462, 232135459, 381418656, 444838097, 139161148, 659422718, 439489342, 342259563, 271177215, 6702563,
    171617309, 422335176, 785430739, 434070557, 298943977, 499195891, 885326298, 492102475, 386288941, 466774470, 650183653, 314648146,
    543948670, 184473857, 72761500, 77710696, 936068599, 899322100, 43717256, 92177347, 667210761, 892791275, 632779291, 481916341,
    631638928, 19159498, 791378208, 14197987, 672333141, 385529759, 941449813, 916543472, 761225247, 761719559, 978557722, 623685628,
    149568409, 825406993, 772168750, 962884756, 144491367, 697363842, 884413193, 432641326, 315868727, 202649185, 834525199, 812615302,
    462438759, 478677022, 432642455, 446615593, 835165328, 103126301, 77877727, 949024694, 18376211, 342352539, 945262907, 840003548,
    736182289, 759821956, 2167307, 290040546, 68666526, 10365611, 980554279, 528566013, 822929605, 73412360, 935785991, 15244791,
    796072816, 14425510, 290742684, 478683541, 830457790, 546436917, 460078370, 918505840, 649098102, 931829158, 538761414, 926659995,
    510050431, 944746680, 478874011, 784803782, 479776898, 319794516, 389153609, 320006430, 17817752, 510969822, 645142933, 228327509,
    673941457, 333606791, 515876393, 758593937, 591208584, 592584462, 60970656, 853357665, 403178374, 983599213, 325084975, 599076343,
    467602132, 175253277, 301371817, 256958175, 536057977, 9822951, 672829013, 935747462, 240140891, 828199906, 277674034, 464375437,
    880953133, 129168780, 822674371, 125591803, 930932571, 810138497, 437758754, 503438997, 486224125, 77749515, 97306806, 116041245,
    677706063, 736441916, 394613566, 934461528, 996245182, 651532908, 551592345, 812862782, 847512495, 123044848, 981278439, 797003997,
    303319407, 925689727, 368767107, 72014988, 938728125, 618217916, 62196913, 25455546, 820959127, 334754304, 581342528, 704783870,
    825642533, 849721222, 970938026, 720262175, 976193760, 851668538, 957403315, 908409123, 895146022, 456144086, 25805726, 254906865,
    46378258, 505813641, 466998745, 645406840, 23505447, 90689778, 783077967, 478898207, 923069648, 414541506, 796374770, 635104776,
    429692844, 955790970, 179911070, 174967611, 300668693, 437034361, 492114213, 118144661, 194911886, 331222317, 817161037, 450779884,
    345484155, 711740121, 262786589, 574372040, 85066581, 436483798, 807529982, 910448828, 746121115, 613527222, 797741191, 313387720,
    976736461, 110521435, 385186251, 844804163, 854542428, 473358544, 29609173, 317378896, 47107131, 63763684, 623338396, 304258097,
    72838322, 978862672, 580159547, 925595866, 228326070, 315334711, 540096106, 401973496, 350930087, 479117396, 557166499, 288517756,
    978112682, 241944982, 67339973, 776130498, 305506213, 797773365, 354303781, 945033311, 627079586, 312710839, 975678846, 250041163,
    215654765, 428388348, 967954753, 913061437, 351733850, 320744697, 120074217, 659782867, 215131293, 631315006, 616357521, 306799054,
    739725348, 126591549, 794910681, 324896862, 985140490, 528314120, 902654738, 431211976, 585632970, 738542650, 533115481, 508015763,
    604974826, 399366398, 571642680, 216024402, 793513544, 276816925, 709564554, 126526717, 824476809, 504932664, 726831946, 825283896,
    673927188, 312974738, 928005480, 510746799, 788126911, 470142822, 249224593, 55698380, 167869029, 258762345, 51598173, 752420481,
    696506158, 989954980, 903990759, 704183704, 665606167, 441463722, 706313417, 326840818, 530360888, 361423183, 283237729, 290307097,
    912832666, 943192945, 299846114, 977027607, 513781135, 366984580, 687087621, 277683524, 63552894, 626497247, 837102781, 59139569,
    791776615, 404108309, 662441475, 661154201, 784340481, 193949956, 491380100, 320118043, 338292041, 863502908, 485751433, 104496250,
    834216549, 233501200, 131285661, 993598276, 896283855, 876264183, 48405783, 469002671, 834231818, 638811167, 114773052, 391420962,
    303262677, 569231522, 710494489, 936574826, 205204636, 123251262, 456831359, 227409280, 882854613, 351516957, 808833781, 892019473,
    809671166, 862424605, 87781590, 285752713, 613631426, 955916328, 282804776, 914132114, 380818706, 916107014, 440255880, 863714837,
    802247537, 277756045, 382681628, 315319840, 335998499, 435083126, 974718558, 683475546, 771915094, 652687982, 669219797, 65013841,
    354917096, 229932351, 949290484, 103949960, 818456113, 284032583, 716942797, 666437299, 104083908, 43722957, 684368165, 166834887,
    742108317, 357308452, 278658011, 150952109, 948177403, 795778241, 422563810, 126072983, 426202928, 224080698, 781452458, 582988799,
    263812754, 346153890, 855333930, 764751580, 596494233, 867807944, 66581101, 704687173, 822723626, 725926543, 423334148, 865732763,
    703713055, 12493898, 341791944, 205509963, 608763255, 778026419, 909865828, 270236078, 497244385, 269201398, 746135387, 699056648,
    702459045, 941399545, 674272272, 474304556, 44941959, 894874070, 683411370, 47633580, 118026739, 8679431, 712421127, 76628680,
    162055626, 317830856, 133009302, 628660171, 316802570, 452152904, 814890246, 219753249, 21727689, 755094356, 501549145, 595689027,
    475401383, 314068208, 564097797, 153722923, 790293594, 508863028, 636828625, 26339678, 477359486, 579571758, 533581498, 629069386,
    353273493, 660245229, 899528980, 608573908, 276213711, 943917787, 431796356, 296756287, 539238643, 625748416, 949795691, 760240971,
    103605191, 153443012, 763093144, 608152853, 309025008, 22318096, 722572527, 21071568, 578010696, 958877717, 931172900, 348855539,
    435437121, 547823281, 235405264, 245987744, 894033133, 139989524, 168599614, 392581832, 54870647, 309589931, 954586844, 179656479,
    649498865, 597802316, 47542004, 852245611, 692107590, 119216326, 496438671, 913281327, 14927356, 350462705, 683966367, 78354390,
    644260173, 204355605, 104244, 940108382, 381494353, 350966953, 505820785, 469628346, 258745197, 851000406, 978857254, 876734874,
    290286036, 343064817, 274323551, 1847615, 249814088, 759457683, 807089609, 235352008, 736628909, 513255525, 90813283, 711198530,
    886409993, 457471961, 803941384, 142018189, 372953119, 908903105, 258922509, 750514677, 344914822, 964825473, 680729572, 398660474,
    382362166, 613395672, 176473281, 17943734, 604172505, 900170689, 308372652, 676923239, 553320875, 1232150, 445866831, 672784896,
    281610519, 129989960, 303940614, 548029163, 489943482, 19919450, 386104823, 880873154, 36118314, 915663722, 333655957, 37452425,
    231470476, 759432851, 749829921, 236477001, 175469820, 351594298, 429420552, 664440903, 3561397, 663568595, 355353819, 831541312,
    468408573, 166348506, 497065914, 833526821, 821168178, 582866569, 562517048, 720881771, 581752231, 43151968, 519570390, 903537587,
    132419441, 361218442, 817365884, 400645665, 954849998, 285723377, 764870447, 539056565, 291639974, 974795229, 305045607, 941203645,
    777697866, 693365775, 40176964, 647203924, 519963963, 684780013, 867332584, 147304568, 577200818, 997976068, 747503236, 300208639,
    707635366, 66964235, 300008659, 154303835, 249211226, 713714495, 770955971, 449653339, 380693315, 136060665, 688058772, 395134945,
    22954328, 425721154, 719892390, 874277260, 323120486, 388607425, 471407269, 531239282, 612037929, 785796391, 254973515, 244907508,
    799834009, 9479195, 953881295, 583779023, 463287719, 896399791, 469335814, 595126752, 103428591, 905287048, 996337442, 201497794,
    714407059, 595017305, 842907769, 351739494, 341425359, 513558652, 787261592, 374192036, 289398581, 664468659, 751819246, 228894749,
    626102941, 562766837, 999222833, 985818935, 149947820, 871950898, 850017427, 401004336, 895054679, 468054478, 180697339, 914267610,
    638513016, 628970524, 977470422, 862932803, 56353120, 226419776, 664618602, 204116686, 38807017, 124638619, 10646463, 852378749,
    847894728, 904856460, 756333381, 456005115, 449484148, 690402339, 309755350, 568651676, 591182224, 590934990, 228737513, 672003159,
    578746576, 343938333, 855303693, 405755713, 877643719, 150187976, 834538571, 935824439, 135998726, 165019049, 989001491, 430468594,
    816984152, 427690414, 127172, 816034293, 382353957, 685409422, 973618696, 896309026, 559169253, 742542533, 983072667, 861221659,
    479641378, 735912189, 89106200, 271704944, 621866285, 583844772, 933894631, 390838824, 496421851, 9250684, 124895232, 470293888,
    799146806, 84191233, 35487826, 772680976, 121183482, 617065609, 993989399, 130245373, 343932070, 526147429, 936879226, 341928101,
    429879770, 531177771, 598281946, 322192154, 779678938, 474215139, 689527148, 775001638, 423273172, 856693497, 154636867, 604369123,
    429857477, 54214168, 128179330, 875875876, 115512185, 706724306, 433370274, 489440610, 897125806, 367389024, 570609946, 440129917,
    498687858, 340259724, 723336469, 245684527, 459433851, 217697699, 533225968, 584713534, 136637851, 122882718, 228462794, 836712077,
    274473385, 617932233, 108652252, 749512848, 691897403, 96481231, 16293492, 129454144, 904253772, 815466601, 93578023, 434570837,
    556941859, 443564187, 50439041, 11788911, 10931545, 212100764, 328853843, 729409383, 982708380, 551789585, 674728928, 908443301,
    337138820, 498023365, 273380155, 711667157, 324971470, 174240830, 150658846, 700877489, 618542339, 347579170, 379664728, 463968754,
    787083550, 537339982, 938890959, 746266519, 447122532, 843443828, 943461751, 782975084, 20292387, 538065854, 543545549, 553741986,
    677688882, 90486635, 76912321, 714811983, 259563931, 12053471, 371352968, 318992528, 466603759, 25755011, 21796214, 134175170,
    622708540, 546762515, 537139107, 153823345, 986204820, 156356334, 644434480, 49469835, 252810913, 92061262, 447997092, 492732793,
    780280340, 210116579, 870124256, 44464467, 930310789, 560046941, 904554022, 93257269, 529096120, 974345018, 298829647, 902253921,
    716714710, 283568058, 235102602, 632796861, 327068492, 322022760, 270328557, 567751372, 356466318, 542951000, 101167285, 44229737,
    455272529, 130905022, 482914493, 20933939, 506499270, 172970991, 554093176, 136481175, 301972632, 913222167, 792902845, 839558699,
    385817111, 847041697, 69270516, 354380019, 890445952, 463581220, 902011007, 798234031, 281085928, 528906853, 769207078, 460441547,
    382500740, 932469345, 300660304, 181613800, 734753493, 533903362, 569369037, 291943, 932481208, 481663554, 157822544, 406594347,
    162427143, 914401917, 261509221, 817233997, 783485732, 487891246, 70561203, 63702345, 451518632, 182952403, 479935783, 585302203,
    673482062, 836905054, 598275415, 14005460, 92697913, 363699788, 108600210, 747854472, 127204814, 603886113, 982009083, 878547041,
    277108408, 586456046, 580124264, 594543183, 846347634, 184726956, 887425158, 937396590, 923262338, 420229326, 571620034, 777584977,
    452878923, 220227017, 706237385, 988328335, 82445866, 476841074, 765861002, 123868158, 493201369, 259862327, 490452773, 328749207,
    14082042, 958543194, 965673938, 719008498, 209130578, 180087844, 414439301, 56420801, 963425830, 968774817, 105754763, 763025817,
    39450311, 950075736, 495727431, 839253185, 156233766, 407849438, 416209477, 677275373, 439001255, 433696321, 426968998, 848818898,
    495944808, 231899956, 263600903, 462958203, 500404588, 979300450, 722049039, 930185117, 731821680, 36548110, 664578072, 814658698,
    155593292, 308901733, 113242635, 803196475, 285442179, 303140374, 931390086, 129714381, 103651722, 987351152, 766168485, 955727625,
    689638254, 135160935, 338780484, 478015672, 371225589, 519337870, 28424632, 380800453, 187373620, 723874398, 964818198, 73613206,
    418993044, 240816911, 406207726, 805783447, 401457758, 977458856, 387124466, 529016456, 250670519, 724939661, 935849117, 23799610,
    61411713, 566260701, 757541064, 688880866, 619441902, 985117883, 398963662, 427942694, 141872319, 18324530, 253760405, 462229222,
    504429201, 989067139, 559425743, 248396335, 107635441, 605957745, 450797342, 719256954, 855285153, 61974595, 305631336, 893201507,
    890799268, 438907207, 318675085, 865568854, 582175361, 736248041, 525440373, 410121341, 861811862, 85604828, 987105825, 319186345,
    188933534, 189055419, 405134416, 603897805, 132225039, 718533535, 941565054, 605642831, 553459608, 138306088, 684666025, 103575695,
    163095595, 67205982, 863410136, 777220133 >>

\* Math.sin table: floor(frac(sin(x) * 10000) * 10^9) for x = 951170406+1 .. 951170406+1300
SinFracShownA ==
  << 690519114, 679359217, 303690835, 196123180, 762270284, 332301345, 165335885, 999781506, 993616909, 671673932, 654445951, 249219531,
    649349071, 225339498, 382879173, 239547010, 299667534, 660892598, 76221690, 441030023, 25143420, 654853226, 806578461, 325060304,
    254361369, 223652494, 145890261, 904352934, 247722593, 358525112, 499398798, 389425225, 366931310, 758127559, 417817577, 875152733,
    129572995, 85254371, 858766541, 36902611, 534500247, 846056229, 581155537, 650254723, 705240390, 16111389, 471512847, 237188203,
    533016271, 612763805, 566680289, 775193043, 231203761, 218489160, 30407668, 17978507, 942902626, 703278384, 583131072, 73721155,
    199810091, 16028043, 449004936, 758256221, 100963321, 384299632, 780958983, 300913095, 515844535, 414496275, 196440819, 118269280,
    398100438, 604323764, 813614137, 498284411, 147692199, 422444727, 274316272, 45680244, 480004625, 278289602, 517947644, 178360903,
    977805602, 752896175, 931373944, 237725746, 727888607, 720130411, 786464335, 828161332, 670261406, 900568052, 851272950, 497704933,
    367169529, 466577990, 104580732, 920558895, 924666703, 871683934, 680084687, 863990197, 994597652, 381826109, 180479088, 613632071,
    319014699, 487478539, 775151258, 924442056, 618607028, 27963429, 862400816, 332762697, 691878594, 923899771, 225362539, 880574754,
    206995607, 953115845, 466040074, 550890379, 937475347, 494122980, 255934662, 301574472, 80775875, 149003960, 150632517, 436226965,
    702987928, 761737681, 271950302, 24012721, 210001688, 179641375, 965749621, 125724236, 409932939, 466630673, 923322539, 956364459,
    547639613, 680362141, 666501832, 652726529, 737056205, 773214531, 233749141, 952360922, 656979047, 995069120, 844625847, 224909759,
    538799556, 9019732, 108149306, 564375249, 182553438, 358519500, 725740252, 485408454, 498755691, 351228140, 40249690, 440766047,
    508736216, 690066819, 19848029, 392089100, 880671337, 89097426, 260799336, 214671285, 575077417, 112088950, 952262455, 879836350,
    187480219, 432973651, 856485984, 618314389, 368882069, 269728573, 532443766, 123817065, 764305338, 79545112, 536119109, 482929786,
    479914753, 204172875, 571192474, 719808032, 93440431, 938563957, 44829715, 230739868, 251689898, 302515765, 898823797, 830583784,
    923873026, 948786500, 304875604, 261514586, 977440529, 618850530, 44712724, 764856225, 199562480, 822812901, 757113435, 436400965,
    415474006, 627723936, 282836515, 541163102, 288728421, 743183365, 852571595, 450832759, 637176154, 642622676, 469614457, 935208038,
    254371414, 927328159, 977194019, 420357175, 526648424, 19906665, 283649873, 398213376, 275588791, 687728160, 154470649, 861517688,
    607892193, 350259176, 431168860, 969508234, 731670647, 853204195, 200331171, 149794457, 969820250, 734628778, 951932092, 157255166,
    598086380, 759032973, 527688714, 572260434, 14751770, 848446045, 415478306, 421960873, 723875739, 819243284, 236793643, 383008298,
    788561938, 627872239, 998919729, 792291744, 592793897, 789719787, 751041070, 36819653, 77718636, 491244880, 302247646, 842444647,
    786169031, 452577788, 904785884, 442790809, 176163882, 235950775, 944541422, 323230273, 180743388, 263244326, 58990950, 467934252,
    952267237, 605757090, 979358376, 541336961, 374595918, 755286285, 655111778, 120641340, 316311785, 775805515, 537914008, 911613349,
    958122594, 722457876, 943028175, 337178188, 845266109, 717810660, 141801493, 706724486, 19265973, 739867560, 418211906, 959575038,
    87252542, 854475776, 646462420, 884257935, 851201021, 13636926, 551689743, 385559850, 493898126, 329161952, 396198662, 661461842,
    233379328, 859950692, 901670977, 50899269, 793324912, 711392008, 983567975, 751872489, 886146242, 504783257, 203382858, 25458468,
    192601770, 49298621, 401658991, 99349671, 88331467, 674177021, 124586484, 831069559, 32513144, 399760766, 288202954, 171424469,
    819720060, 377359676, 16066031, 478051504, 925612871, 53750233, 138207787, 8098955, 152675551, 816187091, 101382691, 439338004,
    588051630, 546988883, 769002335, 44205075, 600412836, 601750280, 755540529, 99598439, 498611963, 569873991, 985446380, 990708194,
    427895364, 729347260, 260078926, 846304581, 505123940, 494845601, 840682760, 623317288, 478423433, 654492954, 177864320, 40738535,
    870970058, 460133613, 337350140, 378288478, 239780403, 834701968, 399813089, 915036795, 687985351, 851585466, 876862710, 661962153,
    452476625, 544978041, 187512948, 993317028, 820380695, 653242325, 61130727, 664593367, 302455150, 144095284, 997050751, 811906259,
    55851931, 222936559, 981445342, 803130554, 22860050, 374899675, 154788243, 89087470, 67646594, 352516702, 943592506, 775331400,
    780175145, 520478497, 860346858, 356976233, 286813306, 607972168, 969068909, 891864624, 621675629, 140636786, 226279532, 600419403,
    580799565, 981077922, 227055607, 559320798, 491469780, 193927859, 740531053, 222673168, 544850152, 189893339, 595569911, 970702628,
    120870229, 343128987, 470877170, 523287654, 9543452, 858044067, 278070189, 681215016, 809931450, 145832098, 73528923, 818531734,
    856727295, 283236795, 367963598, 292731205, 696708983, 617057436, 89049870, 562165511, 681442305, 526205174, 232284249, 249395708,
    672673411, 946103237, 759669058, 599499533, 298533021, 723621234, 841864082, 544086747, 55463761, 792148732, 719530030, 96553386,
    272228216, 457554629, 622469537, 123656440, 147862531, 965730467, 392648920, 995731579, 83821343, 862440559, 275651638, 979426139,
    725390848, 742199934, 653652482, 643710969, 811960463, 324080418, 32389181, 192804560, 50406994, 302121880, 582598974, 548613905,
    300156404, 559865719, 751247408, 229123887, 178244854, 456555098, 927233784, 324426512, 691038183, 704505824, 533121106, 110146440,
    860276984, 217992358, 234992260, 255375420, 662684090, 220652818, 827254175, 519985163, 72949413, 695344838, 537130766, 327650456,
    206796197, 850622885, 609838456, 123864779, 738076856, 186883828, 420359957, 997767011, 467009052, 850187632, 164733064, 690004391,
    10856953, 711871786, 859605921, 973465911, 653666303, 437816666, 755693677, 804007085, 864010909, 218565399, 984819570, 797620921,
    239088834, 256081358, 916773233, 606802366, 397057221, 918041122, 271946616, 370056877, 266305109, 633623476, 456935627, 779816392,
    400389965, 218821723, 500679817, 823842544, 936942634, 959872262, 498016939, 796671981, 667104091, 823610023, 279035490, 410530810,
    111636180, 291286504, 849801421, 543832427, 252341851, 235875144, 851578139, 809739144, 355163827, 263957565, 557740353, 208532078,
    715830636, 695606133, 843633266, 6495799, 375247106, 631496123, 844221751, 288161715, 831676758, 869378040, 173328197, 122132159,
    845978010, 620800926, 957737856, 325247566, 476690550, 981352732, 559332778, 162372421, 265529757, 738395083, 690708214, 3329565,
    908124080, 303388912, 517675621, 492027959, 474426752, 864643854, 432935492, 911108575, 231646541, 149605103, 508686094, 583919310,
    100259480, 953356812, 753772066, 991595928, 793065037, 935664397, 130334285, 946503714, 285768215, 79796853, 802203223, 103995061,
    821796238, 837701323, 383713219, 720335653, 922917736, 241097591, 670180746, 896891926, 93128606, 846096955, 571163568, 921517341,
    452194538, 272979697, 594173152, 447423965, 254071753, 730635756, 348705495, 54629385, 31003126, 777808667, 607695813, 374327639,
    574609355, 954595175, 105022182, 680909940, 124394480, 734933115, 341652137, 85109911, 30552710, 56936377, 910204951, 223295827,
    272401825, 682908201, 581909018, 236350638, 411874750, 593715638, 586602802, 44766169, 192549970, 876915983, 657340116, 112810260,
    478937842, 315968165, 381477794, 958416549, 193900293, 626450405, 91975020, 104464134, 154278676, 521261669, 613780742, 678755272,
    361005422, 146345086, 426517901, 974905482, 350668375, 434690997, 778704315, 403494922, 913718678, 75259598, 329557037, 775162401,
    815297604, 19509429, 293283157, 15282132, 63926643, 601109973, 359060461, 491604157, 740689062, 462207991, 917963924, 127496482,
    142058275, 239708495, 151459078, 777432923, 477363868, 789554181, 718918515, 483325357, 465090731, 38810943, 282239198, 334891190,
    203730231, 993581763, 499012359, 819502023, 545117020, 739909682, 670797698, 899540661, 580342979, 935878332, 876486876, 762302547,
    912773522, 325224811, 40362401, 538780913, 438060008, 209363261, 141568554, 248991779, 328896632, 974727038, 308125574, 343119585,
    221994228, 640549036, 137803856, 782334613, 145131702, 230699500, 144974726, 669803211, 523724136, 19139895, 450841159, 250997717,
    667060577, 616696431, 622017562, 848687496, 845968497, 354557425, 348365589, 55342461, 178084078, 978400864, 770211235, 11878336,
    587607928, 943584202, 818167828, 152330989, 905121270, 49160216, 651464001, 415947055, 763523055, 500212411, 401362786, 738776701,
    94193966, 340568237, 576841274, 157404937, 688847695, 571142001, 330705998, 38121409, 527269483, 230083181, 283170250, 80353715,
    432641321, 946148614, 270391468, 913555490, 603760129, 932392342, 438274584, 414857531, 753432700, 400076801, 419942684, 224764697,
    585412770, 208266688, 556645926, 149629323, 172438610, 610997205, 882609724, 626690812, 245385690, 147890535, 109120010, 479040318,
    327403947, 435700623, 704825772, 935947549, 949657769, 10053575, 869426907, 961426327, 828953254, 453477658, 671904566, 555272553,
    917914929, 778482673, 305548612, 70611828, 3160445, 424683015, 831153101, 369585551, 549852760, 566964606, 302636179, 909444929,
    428521814, 978866258, 66755886, 218819781, 729245367, 182069843, 165718884, 626481473, 646526042, 545142604, 884764764, 648433735,
    242264334, 920630516, 812355515, 608904806, 482831925, 369373940, 597151506, 920932781, 838283958, 44610420, 990488209, 323394600,
    518440121, 904729760, 451302501, 164039969, 589459316, 533640533, 464021182, 497311914, 37963337, 565659189, 177192564, 411749450,
    673961826, 279442908, 816992925, 633016815, 443140844, 52213173, 251100236, 708554197, 43817981, 156980164, 288767321, 613118050,
    588238504, 5677306, 912074127, 67814156, 991683239, 310551011, 311309253, 583251032, 443008107, 935721588, 534713392, 903370537,
    265086741, 625514438, 336011202, 518609647, 427886338, 824617404, 462921298, 580360469, 517639417, 233788440, 152761489, 303307318,
    323138911, 567556286, 991175575, 38069774, 69951939, 900773209, 890209337, 33536310, 564847410, 849563733, 275166256, 852702137,
    58637189, 361629258, 126141418, 362341014, 494896301, 464171181, 56291760, 548427690, 325128794, 914514665, 711422812, 561786513,
    582543503, 450036835, 815775845, 986380061, 830075759, 683843372, 24072980, 454840368, 558059660, 934721339, 379682758, 311996600,
    85371304, 724082371, 77163260, 709898454, 995516846, 46327578, 978598169, 335311153, 977740588, 542678980, 292062000, 231905260,
    33927204, 751127912, 389220130, 908826637, 701862155, 190335562, 239374844, 9769711, 342247085, 455629676, 939080663, 922622024,
    826429139, 896895830, 320827738, 975881269, 935611332, 952797450, 615849349, 120465666, 380062213, 909341157, 378576721, 890913053,
    458814727, 191712330, 253956777, 207986121, 328440303, 316327471, 782367698, 340331229, 798937651, 691015298, 788834641, 716041934,
    810352, 390980241, 932627713, 215541098, 501351060, 447421250, 406072385, 132972835, 949016766, 83238245, 618913205, 11335365,
    111914036, 357120342, 742535089, 84427203, 239666445, 295325514, 702198517, 441556555, 82499560, 450631146, 33404652, 847083896,
    416360978, 165327389, 677091835, 754958314, 344503222, 634418213, 981045930, 330725260, 384496714, 485180070, 197028444, 107416418,
    543708829, 790583121, 598468416, 642150726, 555826453, 673091635, 554152218, 603803109, 582719358, 315899357, 17684973, 898907578,
    842411473, 271157937, 373283988, 795205329, 833423431, 862841416, 524061224, 315646372, 822765609, 405334545, 816767727, 55967958,
    696398825, 842534317, 428731290, 971630277, 306587512, 119876091, 144598108, 114128379, 765033394, 597478374, 946525840, 475407246,
    435451302, 571452334, 605445237, 340464332, 662300367, 589225241, 825101379, 97694037, 172146121, 378649688, 882571135, 255279813,
    342325056, 617668706, 329942725, 379171422, 790889357, 868742626, 235623589, 339755947, 949733563, 4229415, 234446834, 272297033,
    704419474, 54907630, 49538555, 797220440, 863025317, 390431799, 493387767, 902777489, 657772503, 59792058, 132866902, 565638750,
    541556200, 898153281, 604545411, 729610243, 980265780, 295182231, 475148311, 290988167, 611824819, 666874810, 234969682, 955539462,
    347293982, 527945705, 109147546, 123353286, 182843734, 102593056, 689428796, 216818888, 143771382, 471802201, 73656377, 49111690,
    675396343, 96657585, 587315410, 491880792, 772515699, 637944619, 30970951, 617686879, 578341222, 623651068, 140338551, 432402949,
    262138515, 367885513, 802894671, 602340248, 68957611, 910364876, 829740443, 276670883, 829638655, 778011016, 362961187, 646642583,
    61677305, 304914336, 313561584, 209906821, 831888600, 867380677, 853752849, 212110291, 494418251, 324550986, 19306573, 128917385,
    545713576, 985376673, 73943898, 563132399, 944558518, 182262773, 743380207, 621561914, 286731125, 46266832, 72650223, 308540417,
    260358804, 164583769, 804913387, 884541687, 470583939, 532541103, 741590783, 198431290, 50378251, 393171493, 774962804, 131246683,
    874983316, 358260589, 535429424, 158092294, 212424496, 751025613, 369153148, 818870760, 9869221, 673679045, 511957530, 239396420,
    53267016, 119945423, 446871834, 147075572, 158469040, 1354997, 524895109, 58915852, 231497338, 50854358, 91151297, 329837443,
    728139611, 695552717, 297851201, 105430798, 675783502, 763653417, 690535784, 742471490, 363282144, 577400787, 598965032, 125739506,
    395596998, 744313746, 798578238, 73441997, 258835775, 521750552, 438432126, 465200578, 20755051, 368239969, 266948745, 263528584,
    730846898, 807804048, 572037971, 200486926, 826424676, 448994965, 120101825, 385715377, 232957261, 371841605, 351925, 798061610,
    394080221, 579769044, 594416441, 857901885, 211775663, 323762825, 796200958, 551792613, 477033051, 957922733, 696469229, 510594951,
    893826316, 294346398, 438898162, 745903852, 31739000, 870625417, 456437239, 393853044, 366879356, 220983322, 256754466, 36477596,
    919410797, 809051134, 821299162, 579026659, 451071777, 905827792, 42245355, 646848537, 425169767, 937986897, 920157313, 746244378,
    513908221, 678880061, 187318355, 654145343 >>

\* Math.sin table: floor(frac(sin(x) * 10000) * 10^9) for x = 496700733+1 .. 496700733+1300
SinFracNameB ==
  << 931396515, 567483276, 561677664, 359928040, 99152361, 124327311, 686958229, 96633304, 710330930, 827813557, 599894216, 802188347,
    407279373, 536986415, 19879085, 651503866, 601298046, 365563013, 37287456, 664272523, 426483751, 940939124, 633594104, 219533305,
    31088616, 410482670, 72587334, 870192260, 943940088, 416788311, 666973601, 371270924, 331138694, 276850049, 328958620, 166956136,
    845871339, 950365881, 792912916, 181480856, 676012038, 272318614, 504537129, 483698300, 536572996, 229895397, 815886634, 977243449,
    486814827, 767226599, 376895319, 385694883, 264751724, 367074259, 361184746, 380283635, 106957981, 578960277, 521738703, 169471188,
    278790757, 53237960, 989550194, 418727290, 783203132, 619816919, 564618332, 85754424, 892527067, 470107769, 220177870, 967540103,
    357455236, 499270566, 491197161, 950235834, 318958952, 228812497, 291742834, 230180308, 875830989, 982491492, 178033897, 930769008,
    972110726, 268676639, 710788087, 742960671, 56337018, 832053362, 848583308, 254236582, 808840379, 921334447, 846092874, 925015742,
    68529551, 683718206, 632557551, 893402160, 468153961, 400749623, 962939325, 600260799, 842133215, 865948553, 432891114, 659412371,
    13057828, 433559999, 607034071, 18085052, 955826080, 842964038, 423782279, 570371790, 19370849, 344691666, 52664713, 724140382,
    780187888, 255589074, 620149027, 533078536, 960370774, 75736427, 655225179, 557220204, 801587096, 803032779, 45629219, 844993896,
    438817550, 362486688, 699243662, 245035843, 84244446, 553070610, 39248497, 688416102, 148676816, 833114906, 446832771, 321640010,
    436538910, 963550846, 355877993, 996072608, 335335842, 799052746, 318283581, 337991404, 112841977, 427040461, 812536176, 27514788,
    181166216, 475032805, 664847175, 712657118, 984948232, 978797433, 323936008, 637586683, 682402545, 377541265, 368602873, 114101968,
    86615509, 177736554, 180777023, 65965632, 213695672, 923480514, 511776037, 744638892, 632499966, 810687517, 408027481, 3545941,
    331116918, 628078398, 901146302, 650586110, 533059463, 870686279, 836033646, 644179723, 957594147, 229268267, 713907023, 409430868,
    801804271, 846930613, 596249043, 406617562, 80330631, 645700839, 232455010, 124068925, 528050488, 312527550, 925747581, 429136978,
    309353528, 426459767, 276721591, 635133123, 993981911, 615940876, 591711791, 10987830, 240736792, 235811613, 711591300, 463113512,
    258135157, 677616267, 110962753, 396173232, 586242187, 167113909, 15765780, 583430996, 566616477, 111235442, 376674211, 787093772,
    250388243, 851889290, 831376476, 839296814, 976627791, 160526073, 51329820, 893167718, 284325749, 2986114, 216872540, 817948552,
    914280448, 135539867, 917740357, 316805303, 955317054, 301910755, 189792453, 755312466, 47640432, 711668847, 881891665, 661311732,
    684116840, 992963368, 344247838, 260747595, 407957338, 196981727, 205194996, 755747190, 985032856, 112524495, 843941741, 753325479,
    249290713, 423192834, 563948003, 38097725, 806965222, 966664701, 410841229, 74392604, 330209713, 832198568, 463260844, 884366583,
    438791903, 720680029, 383396394, 500406623, 825055729, 259649158, 129818346, 525161446, 614430081, 943098060, 918945460, 613811471,
    421152116, 389910687, 441229907, 727433757, 254732931, 857525612, 109485225, 660645568, 722819697, 531680910, 681130538, 899655386,
    572555606, 7984006, 619753525, 951922907, 444928972, 274762928, 710483299, 769289686, 571296522, 571322856, 94709026, 420678703,
    67443586, 157745704, 948794675, 489829017, 802896981, 867089023, 761260085, 755871203, 289099677, 873828965, 726298581, 284545726,
    465504655, 608377979, 284345745, 481967358, 181500264, 115443133, 286211174, 22202156, 883103025, 523538093, 665252161, 382488748,
    985408102, 886234525, 928719441, 577666100, 80933762, 256055145, 657409672, 963236610, 717870732, 615289235, 914083838, 60667285,
    688760760, 210347980, 709375720, 396740060, 502330854, 604876517, 650815946, 784015714, 362385543, 647126028, 935837373, 11649415,
    699640186, 12018459, 754112019, 429407090, 472442666, 584826024, 97164972, 299241118, 246524954, 39661811, 629324930, 642625949,
    617193584, 700155247, 69250253, 548117028, 298091583, 650102802, 848000171, 758191463, 294278935, 819096615, 307999310, 356930594,
    730142366, 190929682, 328248032, 486256819, 826307744, 965118653, 47667327, 91974492, 767846572, 964740330, 838425670, 587845799,
    992900854, 518202413, 275654686, 180643187, 705174120, 396733002, 317444793, 619007009, 52436722, 322410197, 469709949, 879692554,
    933608060, 819289676, 514055538, 598390019, 208298239, 543023867, 113253027, 961959763, 924193946, 745312099, 317331774, 196718781,
    622427543, 717230237, 976567975, 892970236, 235777227, 676502796, 214927552, 943039486, 642977761, 362022314, 748904125, 502710825,
    879343081, 3460804, 980662526, 56803110, 733869770, 582830675, 94458882, 294286076, 993965083, 306626966, 13216393, 662771739,
    108237201, 367785640, 39282138, 291968354, 894081214, 853635704, 935093913, 80575718, 617295980, 543614497, 995955980, 236113887,
    390322708, 107024624, 684270235, 395368382, 106165734, 299473857, 79265695, 972191513, 811822303, 672877835, 39006741, 825955668,
    864136519, 477927483, 616314768, 280653744, 792829734, 795916952, 974714866, 45812038, 857530395, 676088465, 673917595, 967072706,
    638862531, 108925659, 473321144, 467265187, 456948889, 966455886, 908083656, 282271807, 583043633, 520806793, 47221372, 11519593,
    258155236, 660997242, 176442214, 5042718, 468136814, 724981692, 562771771, 266741463, 831400775, 719265409, 290176077, 898842404,
    167752661, 411667941, 403387559, 877739413, 821402783, 465351347, 24328507, 596968363, 233375102, 241922485, 478189839, 314512209,
    153953943, 520055299, 61078227, 147982060, 740506645, 928575638, 88982590, 835660090, 535189541, 586733991, 969879603, 57527839,
    333759627, 494975335, 5416529, 90657397, 140099631, 815635520, 287358181, 759572416, 179016791, 799710536, 219063218, 625226162,
    430708568, 331369390, 235321921, 744791738, 569626902, 366392284, 878445763, 428977237, 114576316, 131373659, 337543343, 915585761,
    605725489, 43321046, 922509624, 246506450, 397279088, 986111193, 765810569, 989448915, 701479983, 562728249, 63435882, 840840525,
    506998481, 706314607, 188121512, 676395282, 475531581, 59352749, 578024375, 15374584, 576801732, 890452768, 350938387, 139069939,
    788945489, 211439675, 706028868, 518969731, 691789544, 324887472, 87387419, 912413870, 449554232, 331562670, 35332456, 724956874,
    642375668, 34100227, 396246643, 942986696, 953234401, 508506701, 929074473, 86972225, 118790752, 355837808, 724493905, 815732894,
    409385555, 727183059, 443674579, 250410374, 411419183, 953067021, 37255832, 155195193, 134828908, 954533051, 934324134, 504057182,
    512869027, 569253870, 290670459, 290677402, 138991632, 152137486, 990921588, 478262259, 538152584, 666728704, 249827169, 273491038,
    832351810, 291518824, 804959785, 837057868, 469199161, 695163351, 985429602, 262085058, 86290050, 707137621, 790454771, 398716418,
    691298662, 593403493, 224802977, 392158480, 314057146, 352349080, 422195452, 346462590, 322965769, 480888359, 475530426, 42472833,
    260672124, 721034028, 38015019, 121032289, 600924238, 618311210, 291317598, 334368933, 700465236, 158270841, 99759957, 832895402,
    973772507, 280260863, 972172978, 158582676, 395320696, 139366643, 865620991, 7857514, 637325317, 754457024, 394432378, 368783650,
    434168461, 392599511, 109132701, 411163322, 937269945, 369311030, 7671550, 754657069, 337312518, 436805431, 271016819, 830422121,
    144456073, 982714722, 8501199, 881149266, 191008489, 262033268, 824388967, 310859482, 227035876, 897413492, 121181943, 767507111,
    881321320, 642599095, 223577782, 183992994, 91849862, 867585593, 996264597, 591090663, 35128875, 276036278, 342019222, 229959222,
    367075622, 586585329, 500569059, 707736798, 144063724, 768398968, 877557258, 476399692, 289004371, 395134760, 430846837, 227300302,
    230460915, 3490273, 994240464, 969957351, 900788383, 89842969, 113455392, 400058888, 562406512, 197222721, 477273137, 462872171,
    66203363, 84475207, 452534953, 957624, 289210954, 513801790, 342199282, 122934891, 951175046, 972233736, 696340435, 70525923,
    740802076, 737715589, 970188568, 513944200, 277601017, 141658735, 148291969, 741883996, 459067103, 964997799, 102137480, 359747488,
    390640918, 387868876, 275179661, 127907236, 978283644, 674877244, 975855191, 765708974, 243177, 591613797, 696263897, 4436806,
    392204687, 604019603, 797295183, 98383207, 519829930, 946604770, 823350236, 135322584, 924415, 961118513, 321538843, 58335784,
    426808000, 602597559, 756466510, 214781922, 784766146, 551956478, 675612069, 12492857, 701333716, 808501133, 10571645, 549772042,
    656299219, 880304171, 439312868, 743397653, 675967051, 230611884, 618116205, 951463328, 415839082, 667201210, 607231474, 290510307,
    446634916, 204788382, 770311114, 81689348, 280220827, 114694330, 59620023, 818598408, 823002586, 31195729, 367135614, 921729025,
    968165351, 182051707, 42550068, 942790115, 47213630, 903910386, 392268851, 428760775, 620354163, 196991538, 419322542, 69656950,
    355509238, 326430288, 128180613, 29341712, 27672359, 119092878, 105492631, 646541433, 126917843, 496128467, 263878418, 283074040,
    21468085, 338844003, 996635387, 471417108, 259136540, 660523637, 892724983, 930626001, 638756057, 958691345, 841229930, 230611140,
    103211309, 552824839, 29979764, 373640941, 205582386, 423572387, 866985070, 865450962, 858384572, 855228809, 131670112, 930148825,
    256764648, 923837148, 624903208, 58214685, 851299212, 330956169, 386028389, 713302838, 635961167, 240257104, 21625822, 141437082,
    774244326, 707939565, 242073089, 751887135, 645749209, 994266139, 671244684, 409004967, 498282376, 244533127, 186181642, 909104254,
    960695385, 421740077, 149746914, 13895000, 499431504, 911279257, 216480478, 267896420, 501235130, 885184761, 552823819, 631471157,
    553299649, 833674909, 340247100, 923925765, 141007530, 918290943, 88488760, 142843169, 680906564, 30920801, 978942641, 892911814,
    102021340, 39234951, 711749841, 170588493, 597829600, 237995193, 324329435, 370053864, 995657629, 612775966, 406481377, 813127841,
    169697293, 380828733, 711111852, 168785141, 108140795, 901954938, 135614190, 254986122, 561348896, 4513803, 395452772, 505192347,
    973549564, 38123126, 924776368, 249002242, 505505827, 90046536, 573459745, 554715714, 880461010, 314336453, 829706825, 90554073,
    766117804, 323897559, 911766013, 626873750, 370587840, 234215886, 413223067, 879315520, 355832693, 357331549, 451540178, 465501080,
    211981895, 264176524, 5485084, 737370583, 746684852, 870611062, 583936986, 777282681, 656291234, 662902911, 433608663, 609497248,
    851792371, 264836153, 794180877, 500492984, 102588738, 462250625, 646061456, 368638449, 6119681, 315679497, 995666989, 229403266,
    146420183, 144782407, 37039103, 106732889, 202319695, 918681446, 377517520, 357762482, 683378265, 25227523, 601243872, 428782904,
    376360340, 541806644, 885928489, 964155006, 596984594, 321498671, 660322919, 621138497, 448454231, 263324154, 35107950, 266462451,
    82245994, 517716446, 758715169, 591087829, 63698642, 848548225, 889276697, 777697199, 729004056, 286369029, 111534089, 638026719,
    626551961, 848082157, 916850183, 567610324, 542289677, 721297834, 459528249, 264574372, 453548705, 25871519, 888574642, 251624062,
    535070740, 700108942, 25187412, 717005921, 842046843, 975993794, 157646412, 595640115, 748363486, 960804483, 354604104, 94442006,
    810672483, 968726706, 392874608, 659702142, 276460996, 179969611, 384044159, 981294126, 57391251, 589614955, 914151870, 201013193,
    350738709, 946794595, 129054535, 719399542, 738560798, 919226029, 37746523, 660963189, 176007794, 214849163, 222149696, 64753075,
    527362934, 233227617, 347553052, 409973276, 455626353, 708907285, 72957533, 954244963, 895845915, 712275878, 813566665, 158770328,
    190992432, 130457925, 582679565, 175027263, 536308551, 497345751, 776169609, 217487398, 983040557, 336732131, 703807651, 602489955,
    664404438, 958670280, 23979917, 906712210, 727283769, 121069538, 32648947, 553279190, 476895112, 967639480, 204261799, 480063038,
    878265925, 115574655, 523326834, 563654318, 794344243, 615084998, 575339776, 821991600, 906815539, 830625158, 691741523, 721023153,
    180543535, 168605037, 534974636, 180216688, 302708356, 9080267, 782834585, 672575633, 678710916, 443444400, 879030576, 215023716,
    789463073, 156589811, 106932694, 280917708, 101186106, 463945691, 647553195, 469889739, 579884562, 544026771, 927450382, 68437456,
    147182352, 146072361, 95679684, 593873600, 402328713, 922044741, 166583068, 104576417, 144941829, 827092439, 519235149, 341429859,
    525554494, 100999148, 988845048, 800542520, 626313370, 493560131, 524890986, 253095264, 655337371, 378809950, 219325807, 895936473,
    774646905, 644644304, 972487024, 246979040, 253341306, 870354791, 50367166, 764191259, 556635419, 942717425, 302602743, 232691531,
    153163562, 389500359, 278344078, 281372779, 989709289, 880700289, 67848277, 493056713, 372424152, 697834154, 83794602, 268568496,
    87890040, 821933210, 68051676, 637244313, 534430961, 4982084, 976898430, 990598862, 414223125, 724460865, 474131087, 960926336,
    631729125, 203021824, 880585677, 61491604, 906183216, 312505236, 70641227, 68588221, 331570158, 673297404, 421324001, 869578616,
    862681995, 367181733, 101336382, 871558875, 886159490, 858929443, 318304711, 21115832, 127988244, 153219068, 650197830, 55487730,
    859904855, 913429970, 419432221, 208014590, 458407319, 808773806, 976627549, 522937230, 495131563, 680184951, 961033416, 121773374,
    41597140, 599986758, 848225700, 508450826, 505512135, 536982912, 41700824, 262979800, 869159280, 940925087, 793186225, 201427575,
    958386458, 941820614, 33498752, 666152791, 994300225, 149559179, 167437551, 527017175, 454207112, 890522715, 37563140, 586607387,
    825879574, 907445804, 108593184, 594862153, 15639793, 795602233, 816899743, 809854814, 155726457, 587050201, 957334801, 241604859,
    460573648, 510508205, 752902086, 302371498, 586319732, 510633224, 898210117, 601258571, 660327158, 562405529, 85623111, 893256552,
    845146790, 589705423, 701091256, 665868502, 284940987, 690116010, 297818883, 728014679, 836374589, 238041040, 52441284, 657418029,
    784566207, 128122350, 248199778, 204986466 >>

\* Math.sin table: floor(frac(sin(x) * 10000) * 10^9) for x = 1762301235738+1 .. 1762301235738+1300
SinFracClockB ==
  << 651841062, 464307312, 361112308, 798034075, 708542720, 690763904, 12203749, 175558110, 653251155, 989205359, 381201468, 896695258,
    159237468, 450930519, 529042480, 586969545, 667698349, 538157756, 762591891, 300308087, 563788440, 646458041, 631654037, 925984789,
    683938204, 185288133, 243499961, 125482985, 237698096, 230380134, 6532187, 272475438, 241788665, 479571224, 72736632, 390730622,
    667372730, 932224499, 681814624, 995401011, 477062420, 326870721, 924663586, 80376217, 796293024, 791993154, 676566231, 80759548,
    587768048, 574744769, 287194247, 684453151, 905517475, 682393003, 716787690, 475451872, 471715823, 275328774, 908430655, 794719284,
    381826864, 590754398, 999492497, 700175287, 577633513, 528568168, 67250127, 388631314, 561868417, 401806695, 790980516, 203358430,
    414178856, 86281483, 616390659, 146107430, 737190175, 231964150, 206507653, 556192737, 750173638, 234058043, 136759684, 696527382,
    804960192, 622395016, 936254168, 530360482, 774728622, 525261401, 596310736, 369087969, 626943531, 545360948, 657062334, 451051873,
    421986603, 242166516, 402189343, 404425561, 893429545, 109364031, 350206474, 979643786, 767088843, 149592359, 112306342, 701526278,
    526740728, 739238476, 680813886, 473216507, 853296141, 604423131, 151754692, 173984840, 500262969, 709934998, 985073087, 152580532,
    859130282, 609161074, 227696936, 733380672, 797018036, 565915608, 901919185, 864058111, 246037611, 332003567, 40312625, 666181701,
    563024146, 609040286, 84958729, 679851648, 879645335, 643674784, 112604002, 424346039, 156742813, 669917389, 484825806, 733466435,
    430827515, 910154870, 801583197, 127582876, 860969476, 269338481, 122621479, 273022366, 355657296, 249885120, 496910270, 234869216,
    593228910, 775837894, 272120986, 996631668, 505638321, 152540002, 158217805, 290012420, 559936602, 561529322, 130343568, 965485714,
    860539539, 941482035, 939447414, 443412104, 779159810, 487439031, 292275085, 516001756, 136175323, 988148200, 107884976, 30816011,
    399696092, 910081838, 643648245, 552949254, 64428734, 968018633, 12618734, 511985845, 89382208, 634203523, 210084460, 225328120,
    701672032, 4483830, 51117934, 382519418, 8968092, 32770393, 540980907, 728819491, 815906941, 897821069, 98139854, 631241509,
    440958242, 465665934, 180897663, 555539581, 791441958, 39882736, 909463937, 296308704, 993053152, 373488319, 210786538, 380192596,
    384103224, 121244499, 747531326, 107132005, 468305157, 607310979, 631236962, 440674034, 241148036, 384298224, 239060248, 785113070,
    100259569, 139824038, 33977048, 788940901, 873587986, 237409507, 523560717, 260626961, 328105888, 409326613, 917561226, 997077935,
    431313025, 61011423, 839336136, 10381276, 554792398, 951218085, 575650609, 38442648, 317838159, 701236196, 97605898, 945318210,
    504999484, 995497091, 561053286, 770246310, 246538876, 873707619, 676678685, 620204190, 41561930, 266753296, 461407418, 466024727,
    532672034, 411179233, 621945494, 929040385, 458266061, 105348170, 886744876, 68743202, 220037129, 189667121, 597781754, 612819129,
    786959686, 675083443, 690205582, 222186559, 779874335, 537955167, 740796170, 82973377, 567404383, 308588595, 419146751, 134935072,
    842558913, 915955714, 650288400, 179561403, 148851964, 911511877, 952242190, 454525417, 651497859, 380125358, 82086973, 432277119,
    672625420, 452951570, 297178250, 109469844, 733153695, 958078537, 489148382, 618264835, 301678104, 344345688, 47735064, 516445277,
    105510716, 111551784, 573650466, 351415853, 380163681, 122859768, 753370634, 31623277, 832031515, 901961064, 658572069, 99677331,
    97262163, 444231009, 538740977, 605706728, 362044160, 750353706, 308435494, 157910586, 711081339, 771048365, 267501246, 16634241,
    947528073, 149075372, 788098907, 77360737, 181376707, 146012832, 470521421, 327947537, 322574019, 121066892, 31664409, 794247790,
    441425737, 230102437, 885900883, 588561851, 746877931, 351362549, 877133967, 224328033, 237521140, 440513046, 285772914, 580394144,
    537655614, 945690570, 550522778, 92856270, 10356264, 872217394, 377588710, 883736189, 321223045, 181771952, 328381632, 530015309,
    760141358, 362037847, 536068268, 134769356, 191425767, 494604662, 372567133, 512419681, 728345180, 466813912, 647847537, 807047946,
    44642123, 245912089, 725294753, 503357516, 247262372, 886932310, 838853854, 621048370, 149860195, 118465374, 706695939, 400742171,
    838987406, 376758879, 79484161, 75030372, 909097936, 129108025, 8160067, 702644641, 650156907, 665422851, 39442990, 843506323,
    322504814, 539481114, 796575563, 565969472, 493366694, 803935305, 125766578, 819883830, 706729245, 120259006, 131745094, 120987373,
    313839789, 63834298, 910611162, 630409957, 506727725, 917902983, 573525314, 635837190, 190882342, 633097801, 846327125, 5146109,
    497168694, 758455764, 676813725, 536650802, 842879306, 659554730, 6431684, 77741590, 547892922, 365057980, 624950876, 91789399,
    175185998, 213473320, 724916405, 664853972, 675952405, 290292391, 270746047, 330032220, 768065959, 856849093, 865260091, 138955577,
    655945828, 363801155, 946001679, 438555673, 146982589, 2529397, 125990803, 172037694, 107743016, 455055185, 826622746, 334842465,
    299041062, 555789662, 606522047, 555007406, 569283536, 261381374, 834520759, 880476852, 122355903, 742571936, 502974755, 488119857,
    505850285, 890493476, 839856160, 641598122, 842660817, 260794780, 484531964, 298730331, 90857297, 728994739, 419208026, 413445538,
    573980889, 829504849, 295440844, 598348749, 345646539, 776901084, 533792920, 596247286, 851842929, 914155724, 803245492, 348544418,
    26234829, 987262509, 550145467, 343373060, 601717861, 643700870, 65472849, 590710969, 122586323, 434175874, 787567146, 554869062,
    128645740, 85125420, 691759648, 177022986, 172455926, 845240075, 274144610, 422822450, 125089912, 849128549, 261550158, 113445087,
    691547061, 8533215, 630066986, 720858933, 711293615, 710296206, 73267920, 894596301, 303847947, 293232874, 164914406, 693812316,
    52871870, 251714589, 752763459, 932373787, 124556801, 507474837, 710704829, 511645580, 289995215, 53779867, 436354584, 690408517,
    823500581, 604328235, 571931263, 363776568, 995595004, 607001554, 156716862, 624767188, 817398896, 59258067, 420908978, 942952514,
    696654146, 71442130, 946521421, 288444132, 687868819, 574018984, 325910119, 513504492, 62007211, 552883600, 34246039, 384053682,
    91769257, 191228913, 668401535, 54253651, 825838631, 692612919, 930915783, 661206732, 886386493, 232879871, 473215384, 142842385,
    518188942, 195907468, 680630616, 888948593, 883965883, 182317515, 817558997, 268504047, 799972587, 310625472, 290683918, 620578430,
    937223246, 128427750, 753341730, 753084720, 583619015, 139287077, 25814219, 226913110, 743673992, 425181189, 475707516, 33005487,
    182415482, 104423833, 87131080, 861080693, 920706604, 838519990, 670618312, 315057656, 287633727, 204860711, 184992640, 838152346,
    100929901, 39741751, 645539837, 544729176, 841855224, 671515132, 646661981, 224139912, 77429722, 31259404, 724314054, 440848994,
    754058866, 354032211, 727484574, 132947224, 557152016, 735420327, 166350212, 328444277, 967545836, 52819647, 616114233, 927246138,
    375044447, 281313791, 511299929, 78016870, 361761664, 909480222, 816723330, 604878418, 597919907, 480289864, 599189695, 174554345,
    233530805, 810197515, 513600379, 541470155, 354294383, 783465747, 602509469, 191831518, 90802860, 347672660, 361210909, 387976346,
    913964512, 518281826, 225101342, 173733831, 847544376, 64977007, 852083084, 127060842, 846413049, 551007326, 200631643, 338935887,
    120185581, 850688616, 143500372, 455500622, 107549911, 434729529, 782996684, 133721405, 139092262, 442046888, 883168237, 545824923,
    598671018, 526381138, 924021504, 952802328, 924537017, 742239037, 915827321, 471376644, 965596302, 412769695, 538484213, 91738053,
    347199074, 958514348, 899511154, 60651741, 757854756, 630411366, 130666399, 233930796, 96424106, 723400125, 161031405, 990073024,
    874358821, 348131090, 73299146, 906629339, 107411049, 756258467, 272264171, 941560836, 513340687, 627563006, 166672818, 970682762,
    379128387, 328879687, 291229327, 358030211, 822874725, 578815949, 148197023, 680331898, 501648599, 276944141, 751501154, 25900187,
    153389741, 931555780, 90533170, 768063852, 81261432, 591205721, 721444929, 995146878, 321818762, 760663163, 53654448, 389812149,
    65210771, 902911634, 6940233, 124947466, 381969023, 236664514, 407464843, 672588282, 204245295, 931400916, 396354247, 737943663,
    483696013, 953738794, 978398722, 995788577, 759997829, 36342065, 180391551, 843744506, 805073092, 790145264, 177318665, 584746510,
    373215875, 649584829, 314137801, 531950258, 117418836, 161247401, 252522321, 773694472, 276571792, 90174046, 176527553, 80192129,
    544137553, 290607700, 39548255, 281811640, 333630139, 219745552, 41700726, 124367617, 976735572, 181070585, 43346243, 102740411,
    762361829, 7459530, 917943788, 221692482, 884107822, 865058315, 828668333, 578750013, 922188343, 128344049, 355793165, 556444089,
    882643264, 46499567, 129183533, 45267661, 409067630, 873537064, 477026026, 797503352, 736668184, 612964836, 389713284, 151494503,
    492169397, 178387027, 379920589, 146122986, 287150148, 260664175, 226745197, 422392645, 317100449, 456227862, 470757711, 982667392,
    438098243, 364762238, 839523265, 209245973, 457044642, 481723716, 293461463, 208369722, 228395216, 984775621, 646554390, 638780456,
    961367516, 198951926, 376686961, 386164847, 370102328, 265917293, 441935154, 678193644, 902861963, 626694057, 957596072, 546671247,
    215679951, 634184309, 225356349, 978998014, 859529310, 428227692, 384614651, 590165242, 671536716, 326477351, 86021863, 93554550,
    179167222, 486219551, 293818659, 808347002, 362301963, 33485713, 993941524, 129459533, 690659074, 223872218, 422114808, 589265264,
    471515363, 822639620, 811109337, 482228667, 769894890, 117225132, 547941204, 926228560, 483947719, 982491580, 45879279, 116688322,
    774962689, 353253339, 275030385, 415527680, 841330849, 744778676, 610214203, 320220455, 250354659, 127317365, 456547218, 110997421,
    687858925, 55318306, 309498512, 899533147, 700591693, 602651521, 322657308, 566804554, 947642732, 810643069, 430061832, 250782937,
    641181856, 967985144, 588879244, 754733862, 146702222, 824383941, 763595399, 209151040, 986297866, 222514423, 650342851, 964031027,
    375722762, 353058410, 577321409, 87393922, 500258982, 264632815, 840736316, 726217926, 84621020, 378102893, 893990619, 822743719,
    717812315, 367811235, 31678049, 339035337, 539405035, 408250432, 204058131, 174343863, 167495620, 454867319, 175983567, 131522799,
    623825566, 3062395, 41178449, 517150368, 588575258, 278333403, 687453548, 761470342, 114479894, 205531472, 236268082, 891826379,
    861553510, 192746746, 837220494, 13553685, 968325645, 700965921, 865427593, 692798651, 33780431, 640180020, 690498835, 126613392,
    59183897, 93861531, 764769568, 170062298, 247272133, 329176388, 338421486, 953929355, 551148032, 462064537, 166700176, 577099234,
    110004792, 532364207, 500560016, 148960994, 244073877, 588203448, 996646965, 338396407, 485135970, 522883751, 192472410, 896346619,
    98943498, 934271097, 117621291, 351217571, 742248151, 692148430, 917728962, 574852835, 890457655, 354542576, 615389343, 947065757,
    385325912, 278527435, 510824751, 706849229, 731012984, 926165070, 843877818, 49202186, 210061773, 518178799, 820509905, 402955237,
    211470293, 196147529, 648610080, 862945301, 359253043, 993036948, 960082915, 9266923, 990179555, 555088535, 377924988, 13860128,
    863041108, 417365599, 785020365, 572737436, 327813183, 156311797, 726977311, 656640300, 476707215, 824004465, 771825019, 29868054,
    483863525, 374095078, 615812275, 838698046, 288560955, 334477961, 69653636, 954239354, 205829718, 976641373, 641174042, 43784282,
    453413080, 158275645, 994476863, 861452218, 2673177, 585085817, 9506772, 379069882, 926145338, 969656523, 865512326, 603408513,
    159110152, 925463206, 356735658, 611272503, 208798086, 531885032, 867216368, 747146814, 969674747, 905114769, 555585690, 887434122,
    194526554, 896566991, 594697799, 750785744, 720807877, 993635322, 700941094, 806297212, 298040473, 197882646, 314003356, 719004954,
    110894007, 156376275, 170726424, 979603488, 399181807, 817652513, 311276589, 740477379, 186025345, 283477327, 99942107, 570630127,
    487224335, 341569021, 332327706, 52033078, 340618687, 641313017, 30740152, 228675386, 966764598, 223325477, 301692130, 359736995,
    795563230, 518229710, 998678944, 326027698, 509099404, 14945712, 323770594, 335662907, 127311135, 735896166, 745220712, 132059424,
    831168987, 489804531, 955446348, 688409676, 142843946, 110291295, 996727649, 252163464, 412354461, 843170269, 888491293, 967681471,
    935550229, 824801000, 576077751, 833062583, 912951056, 248455820, 118560602, 184975002, 714331393, 834085368, 788558157, 374939909,
    404619217, 203698721, 186548441, 791825030, 797319027, 849864639, 740127605, 232175672, 781002610, 569595587, 801729490, 726817665,
    426304061, 711098380, 105943624, 970871765, 167554508, 665574956, 127730879, 754274598, 808696107, 359677389, 585402254, 683136809,
    975702532, 58386800, 649355597, 475299035, 247689820, 416894886, 192011803, 863008303, 785935688, 22215062, 490649898, 356923124,
    617353123, 999633657, 9273378, 713695800, 735004563, 108547768, 376801621, 300368391, 68299023, 650369740, 375821799, 345642642,
    664928764, 767591805, 617376096, 207005102, 196459059, 741435303, 304947553, 924947264, 666159307, 958569132, 919409092, 846763458,
    355983812, 675910536, 691027049, 571795782, 655276577, 650928848, 640439246, 796434535, 753421798, 989537130, 258207220, 426261047,
    671480276, 898680354, 49541182, 610148046, 922180626, 434903449, 110175160, 346680315, 281461367, 483186990, 731688314, 166968458,
    600632129, 210310702, 94680072, 780394340, 282249033, 975858590, 642061105, 942602959, 582797370, 938300067, 878947481, 263549914,
    74080799, 89163747, 536066495, 894970406, 173434619, 723121698, 782401652, 17278705, 732652984, 756244654, 383537931, 539553053,
    373778920, 411728570, 169741160, 33281472, 432197823, 851428951, 810556408, 143610939, 738121612, 308745565, 428532277, 153711203,
    316978052, 88747595, 489928126, 836182697, 886578088, 645062456, 246092797, 555932704, 362964346, 184156005, 938834714, 766606388,
    997514498, 175675909, 29369885, 634853817 >>

\* Math.sin table: floor(frac(sin(x) * 10000) * 10^9) for x = 1405696110+1 .. 1405696110+1300
SinFracShownB ==
  << 816265776, 382740554, 22265377, 648306264, 542414017, 240813597, 126509514, 361860613, 984253188, 15894387, 592033919, 856204068,
    626112628, 462884103, 102770073, 821208674, 728921044, 72705851, 750925703, 839897147, 743221367, 27949125, 120249469, 326424349,
    500243088, 290272573, 856104304, 510691502, 317282626, 459403954, 6019865, 928145592, 264016538, 610949766, 279574630, 900043888,
    542419479, 142779741, 977396955, 842419563, 773458876, 937580324, 859699509, 490929376, 195209334, 724796000, 546950207, 626385685,
    19244151, 97903391, 273579557, 396679107, 700997727, 203962286, 264928084, 181171387, 629312166, 277381000, 581724725, 184224569,
    861399368, 459910733, 311421255, 645256135, 317471798, 472849401, 230801359, 461957115, 840937611, 608528636, 834116308, 929375346,
    93977324, 66431647, 897883313, 594686880, 825404402, 765144113, 640481981, 999840908, 526138938, 204228482, 760318353, 19935205,
    988407816, 405449706, 724651811, 86196005, 608254642, 114897876, 331266316, 998186657, 581295717, 411548474, 586970080, 154668992,
    194093348, 668996577, 460762328, 552449939, 917801922, 273247978, 132587728, 685388715, 151857589, 718471947, 333110133, 916417204,
    14481391, 826415548, 281107231, 543117273, 941309027, 560253826, 736981079, 875199453, 676658676, 936667363, 26370074, 11902553,
    880746544, 863642570, 689063654, 898437860, 443557132, 153418003, 407628574, 324377227, 717939001, 383057266, 464638072, 794871740,
    107607170, 565459237, 336421839, 709377456, 208649470, 214555738, 122051612, 662857022, 437374759, 355696171, 145943331, 989039717,
    545706695, 489972552, 743904673, 272835909, 555704338, 852069057, 864559860, 702183078, 838419072, 44349803, 219129789, 557970845,
    840498718, 199678478, 584158786, 314962233, 9988725, 43514237, 418077412, 235130602, 463244188, 886984542, 371089214, 556693685,
    306608484, 42385756, 963625104, 751576245, 913249489, 821835703, 75979183, 661548221, 745131959, 87934047, 522928940, 705833382,
    882305845, 540518866, 934125206, 947408087, 403814808, 208690512, 287664567, 510860394, 567358303, 966346260, 403262060, 894360526,
    28939480, 865360935, 954804972, 50881830, 792473843, 81770143, 993180311, 495544783, 578337880, 580817416, 394186900, 214680541,
    38707656, 361241403, 100460250, 319769810, 605306591, 814792837, 632129719, 936169407, 128184601, 923501448, 472007283, 296384261,
    525076987, 673699958, 555976499, 731394338, 572337366, 692813583, 850616185, 933653720, 584190915, 423807805, 78405111, 33617013,
    65532950, 172556930, 853916587, 138745082, 37278551, 740452505, 97291182, 497432880, 528167895, 763984306, 653331657, 10351738,
    878853782, 893224348, 551934842, 345830402, 195335039, 757453024, 184674386, 539600323, 707651110, 864992057, 101822567, 321262390,
    338540886, 625780055, 417574774, 999140179, 922130238, 849450630, 975862606, 952676270, 503715293, 891062282, 902912684, 50142078,
    640358922, 389623149, 278641130, 339178633, 297162056, 899557994, 610001468, 945900634, 393803989, 191838011, 813497050, 894433801,
    10162146, 849654620, 811672322, 29215683, 10613088, 554551976, 10062241, 627926293, 98785350, 432704248, 844450279, 99786521,
    732663355, 783118388, 972296185, 254207509, 961767481, 530791247, 451308528, 295076615, 693742178, 297755257, 672649642, 708607109,
    703238956, 873218184, 517653222, 713352180, 799029868, 426847153, 116052247, 664072192, 999943310, 186919094, 765503124, 869005977,
    5013317, 3659350, 583903040, 707790142, 359067076, 211058974, 136020501, 800566671, 540859561, 330584159, 531139236, 436580607,
    434130586, 244650762, 75339545, 950419362, 452513006, 653660139, 820180338, 749342298, 232147722, 711080526, 772787989, 322239142,
    746135160, 335553386, 178893351, 296689428, 700883892, 807630921, 342432414, 28308851, 487248487, 48071723, 139202624, 570339043,
    360473550, 234506023, 195641779, 619999689, 701432457, 92286125, 269056309, 470008035, 692480500, 772745028, 54959979, 341923711,
    930934975, 174745055, 791927891, 880676808, 684359839, 219129418, 239483936, 666124932, 757221148, 842839114, 899911112, 24110522,
    939299133, 509015372, 428991392, 287399752, 736251658, 594323689, 600941306, 706694744, 5979747, 257089487, 315373909, 381569064,
    389108381, 131430175, 371871219, 922732971, 290835802, 427544893, 881682548, 514593578, 137102394, 268031913, 142909867, 965259170,
    794747760, 112334937, 746522832, 89348171, 345245942, 244179933, 77866638, 870039405, 78203584, 27438897, 752495846, 159182961,
    495773367, 550424189, 919561774, 664188278, 939043772, 358644436, 534913298, 894730555, 557424268, 951181104, 621178182, 707835995,
    288063998, 485532763, 470598829, 369847908, 686691223, 274114113, 892359086, 605157660, 786717795, 244294313, 705801475, 357127073,
    131611885, 65420598, 785600064, 536105006, 77591638, 481973823, 960066716, 747689991, 329374445, 252700135, 154506252, 674497380,
    949943005, 456049016, 707144428, 312968361, 768861716, 713717923, 989845660, 661381848, 30314600, 358836746, 553296811, 376869429,
    939428492, 802560094, 31855252, 607447115, 304187638, 932071214, 347479397, 5505145, 931285393, 437076752, 394650097, 273258123,
    733841055, 366252054, 942259866, 22853887, 921165208, 120490581, 288963177, 297509695, 28116212, 15714148, 890784887, 623898194,
    130251785, 831450981, 650303453, 15621269, 354346053, 518038472, 449005134, 173250760, 494160262, 447145337, 997124735, 690628268,
    970101129, 178211711, 476952042, 413440236, 343284760, 677959079, 121687483, 750043217, 718888966, 186042133, 442602768, 206850576,
    175908011, 403117373, 559093106, 176239944, 710214611, 500992369, 385027453, 377782821, 93199260, 514044709, 498279177, 689995585,
    819046015, 733420250, 66018218, 710680952, 999810947, 332656327, 236376891, 766037085, 243044803, 272166906, 217791127, 817856743,
    918229077, 912027387, 585426843, 533743863, 966445387, 256957905, 1931892, 22017117, 648326810, 365619339, 187651574, 442386739,
    490054508, 540596364, 604812556, 729377488, 238634853, 521505685, 819362037, 736940057, 167924848, 315284261, 207692057, 216853058,
    669734661, 728967732, 452702307, 643589642, 710751397, 698956181, 594401488, 661842423, 506089601, 55626942, 981567725, 564232946,
    67074834, 70676402, 860813847, 949628443, 363600432, 760423288, 667679404, 203659472, 69107743, 437363856, 518601518, 704468953,
    356308745, 925659310, 775466219, 325207254, 769167499, 220726722, 96650921, 776103346, 526046586, 978756686, 981837368, 260350127,
    460583965, 822321077, 214663285, 241109633, 274599761, 619084935, 245438819, 125138081, 855298719, 172326161, 607681698, 30168918,
    532715491, 903379092, 265382155, 993558577, 7151275, 58805239, 980169425, 826559917, 251196819, 284385064, 801819373, 160825897,
    439232600, 253133687, 6094950, 222736403, 854568939, 95763544, 202796225, 634291147, 654226678, 494093125, 371387127, 617339714,
    297486463, 688423910, 179534748, 443316684, 506718454, 23641002, 231020360, 288266146, 347374207, 102809643, 681344307, 762134736,
    489318284, 264596339, 625000775, 899870225, 312915891, 882010094, 859005157, 496346368, 505558896, 110640095, 546736533, 740195452,
    346204480, 713809554, 6355018, 466868151, 574369372, 28557312, 96391118, 384834273, 416955926, 707837029, 240139514, 925222791,
    321687303, 887960266, 591729293, 272464439, 851644491, 3761114, 843096308, 914618847, 197392509, 713722361, 412773379, 473589019,
    487544908, 705633368, 329719887, 758274824, 862375278, 378239236, 272533913, 342158751, 804491943, 201474950, 299564953, 540806702,
    89136790, 908565129, 214741872, 295999, 576015060, 305005103, 474728845, 956674418, 546333285, 990663263, 4647558, 455185631,
    59681538, 358115293, 780789161, 605914235, 243502332, 82710920, 377887701, 361666485, 517010472, 813705764, 638584813, 568647605,
    940979131, 496810219, 243720997, 232307244, 432251228, 241772175, 773730167, 897308984, 524000696, 54291418, 254401316, 615386895,
    969700160, 664819441, 41635278, 22679809, 211560634, 378972549, 222852699, 48686801, 231038951, 302124175, 681988166, 499553218,
    691100227, 471684219, 86360815, 697769610, 629725143, 858568100, 919578843, 762371425, 731111695, 328111085, 890524652, 807387218,
    865337733, 336584746, 428384441, 583012094, 486544493, 871769776, 296027313, 472919975, 915621567, 16019359, 626097322, 584720952,
    964696476, 217879279, 240668586, 745682064, 671543131, 98337096, 980644400, 804491781, 634216354, 979696499, 42309203, 844537779,
    700995308, 745952132, 349134179, 425231658, 786212074, 112391748, 266865264, 951028135, 798130038, 596836368, 419360075, 18090754,
    617663945, 285913807, 695706791, 360124824, 613520047, 993709446, 460348681, 971640652, 228678814, 428952579, 401642156, 640585014,
    275739405, 59940427, 516216592, 935797081, 769938855, 604786019, 42753746, 985224986, 756642089, 587522569, 792759049, 50720813,
    985594714, 865647660, 483150929, 270374864, 821556898, 340947928, 328457303, 847901476, 262300956, 250903929, 633242709, 673143714,
    802743115, 388628392, 974517384, 311019070, 844736038, 667573640, 512168343, 972066057, 530523347, 240288044, 277632824, 220994207,
    732640825, 410170528, 524241392, 80133484, 279509885, 319985868, 308637622, 586075351, 929474997, 375024920, 250822708, 908246165,
    499275910, 307112650, 545894609, 446229144, 769293811, 296370999, 410085428, 845234819, 521525767, 383246943, 735752663, 957734789,
    498131134, 767576864, 954205111, 72256066, 884019896, 841961551, 30588909, 796105872, 329201213, 179635240, 809110115, 535226247,
    778882095, 671965324, 403929372, 613925151, 387760385, 688486543, 610019218, 318385645, 115074230, 632832559, 115401327, 113401985,
    963599808, 970545923, 161308526, 471521714, 492046744, 812850538, 451041131, 341701540, 99956961, 167592882, 187383764, 979184114,
    963161456, 290300602, 73651302, 162820430, 334637077, 677296886, 711419527, 811200792, 631135234, 279506101, 973885120, 556390695,
    553735368, 466918243, 497174680, 798780336, 414622469, 533738725, 773829122, 578765677, 548880698, 599041650, 134476685, 997682095,
    207909378, 596523513, 637606454, 626571234, 788278091, 717094498, 266235028, 51065854, 226518994, 342196181, 972549731, 349294916,
    7151925, 368265951, 67608030, 188079815, 569286702, 231397548, 18728325, 594577891, 298071283, 515411456, 765385908, 37850215,
    480142566, 773089338, 382268088, 775350056, 188562481, 897571852, 442019753, 338386333, 258075420, 73243241, 989606989, 686807158,
    108494581, 498775429, 870879139, 396183222, 103409163, 438797222, 744321093, 177118453, 8576119, 929642294, 305230530, 120697163,
    780559264, 718398678, 8346881, 871834602, 13656458, 397214248, 756209229, 272081553, 517875928, 35142830, 50815716, 399794963,
    905551141, 544260527, 91062528, 301932483, 733178587, 918044571, 468149801, 505462202, 13151993, 695038130, 719570286, 794725078,
    139213298, 643517214, 413304277, 455603842, 982717103, 608098240, 465111468, 466802464, 460741334, 122077099, 101483285, 941468843,
    391525712, 182194162, 274637999, 205766435, 806432359, 652326246, 557840251, 776791494, 121064760, 692213429, 372529207, 553514226,
    270236934, 98603723, 527083805, 292867501, 66678748, 806377768, 350528220, 929773228, 108018132, 152464414, 455131701, 109800935,
    226980494, 444798711, 165740230, 601548860, 988653677, 466671426, 693762442, 813851046, 452705028, 539985359, 942589666, 944672264,
    712390957, 18353948, 881545820, 146356386, 521706956, 450455808, 465882673, 168071018, 362685438, 821164933, 767254493, 136892123,
    617210582, 728309882, 340514481, 571771682, 839772609, 694015696, 388752618, 73014161, 941338040, 410105793, 300914398, 464921305,
    695381683, 673894505, 916197001, 731467886, 176937608, 102826013, 161276368, 25764641, 737328974, 42547122, 842896211, 362745853,
    461497269, 110624344, 274454523, 777253229, 99481456, 610512434, 84865406, 841477344, 430885796, 250606739, 197413024, 734030679,
    342140338, 530189287, 963336343, 28911326, 966756148, 348614874, 264636244, 23478777, 455699074, 120590232, 598479351, 483451803,
    967482469, 779273652, 86156622, 406354519, 971907492, 296210591, 94381168, 841777489, 445154225, 628646462, 696876790, 758873823,
    113541503, 442681670, 259416468, 56430974, 221444044, 658454185, 485303314, 826420561, 486376561, 648631873, 430439660, 629474357,
    50822065, 879520188, 895242266, 181150284, 121053791, 251195385, 371874342, 239356039, 973179136, 407006426, 592121486, 476399207,
    154034069, 758424419, 809874196, 918210234, 335737289, 791438435, 277125431, 490549513, 535805970, 3429318, 493040490, 528673604,
    306780354, 722168330, 925098271, 477219778, 356501159, 660619570, 641241555, 966541959, 920043362, 219872433, 799035713, 207431213,
    635927178, 239991976, 79598147, 30660365, 117812348, 101522049, 129703936, 315092003, 278851044, 372308318, 428935028, 998056736,
    764815841, 966217878, 364762114, 672829119, 466333739, 126072936, 349533993, 462446873, 875259425, 45451019, 446671060, 873454395,
    270211512, 702411571, 322024835, 572692711, 577156812, 421881187, 636854389, 414235701, 890696326, 654000191, 811608338, 425264244,
    469249872, 758835417, 697600585, 309593488, 599637651, 482729063, 829166079, 483418777, 936774905, 734956720, 613372541, 14260715,
    410135338, 489209439, 339436412, 778735949, 756546020, 115046541, 741245179, 325786026, 343167239, 341548316, 136592348, 45909235,
    873471129, 731977202, 231889291, 938484377, 81631879, 205530748, 219327617, 941246815, 271050820, 814364700, 678948286, 710425928,
    124740602, 89966860, 544190782, 36439143, 668317064, 58508970, 773376661, 740142376, 822537868, 911354680, 813914689, 743733942,
    156498755, 280056887, 398372444, 888067768, 79392601, 91485158, 75177445, 816712973, 417469131, 830688893, 26039411, 965105541,
    457746528, 134766389, 887543586, 197140633, 836183631, 322853870, 648577093, 371014778, 246798629, 268716304, 234523510, 855474834,
    724825820, 235479614, 172728840, 173274394, 349223344, 87463135, 293882104, 885216419, 212544453, 62945712, 240776088, 367824647,
    584243518, 903289482, 830785097, 476284087, 454800506, 105280871, 937812504, 225267073, 595779670, 661120504, 554737365, 424071822,
    18608462, 258070797, 454526506, 478192032, 193713253, 144029595, 155139050, 818987020, 357162206, 459352744, 923253140, 644125910,
    223027254, 855611806, 862636596, 661519324 >>

\* Math.sin table: floor(frac(sin(x) * 10000) * 10^9) for x = 102108+1 .. 102108+400
SinFracJump ==
  << 445903992, 822727676, 486680900, 741109049, 238033021, 167749019, 557596774, 440314520, 772886679, 808320049, 999438473, 789792692,
    505962233, 570849357, 857256641, 126818115, 717880234, 275393480, 186158135, 205449075, 560475393, 680468763, 789479456, 763947129,
    571851338, 748067572, 68317957, 900817181, 439357812, 926110181, 351560462, 327497730, 148830196, 476423170, 749306529, 829201218,
    30097306, 590705225, 21516848, 982403591, 839163230, 470910403, 920895943, 790551372, 331341570, 925823080, 231535093, 337099468,
    384050803, 276149005, 70291289, 928766399, 175923282, 939258116, 485993164, 701000199, 691731277, 998936449, 552218835, 890506238,
    984169728, 366205368, 45716899, 149287406, 927387786, 717493376, 195559753, 105273584, 96328192, 998695667, 406619774, 307947450,
    918823458, 994260893, 638435635, 385478920, 95906136, 683670444, 177305023, 945899379, 390669641, 422847331, 262945105, 683194395,
    166087010, 936983278, 891057557, 788463891, 625940492, 145507464, 451400697, 249195815, 557851921, 340279699, 587969479, 305663728,
    211616014, 704192641, 105595835, 363797342, 637228182, 335190111, 146403704, 475918126, 239195037, 864935195, 518547079, 267307106,
    627436118, 698511017, 207982720, 319032919, 118426594, 914623021, 724411656, 785801495, 414618865, 170543067, 267642240, 785858183,
    909438358, 162397851, 871000697, 158835615, 831353940, 406529942, 507412155, 993914593, 907250677, 240756291, 513411141, 814647146,
    298896931, 503962156, 201050783, 514404797, 744652923, 307159328, 68162446, 578096195, 930094922, 150204693, 858992460, 731909157,
    291702030, 571043633, 681304941, 936458763, 499172142, 735701040, 549658525, 535967486, 690172363, 678996375, 857142585, 382594591,
    583297645, 459210204, 36949766, 387504623, 968895325, 447380276, 188841862, 481816024, 589171913, 959149390, 880944157, 476091146,
    310332201, 488483113, 739172251, 950819203, 117577318, 405324566, 757990303, 813624191, 320228637, 24265142, 535405779, 168995696,
    928726134, 123523211, 469039807, 754126375, 381902845, 323848525, 745946937, 758526259, 604806488, 698901918, 199061582, 325258884,
    779375321, 941877627, 84199512, 932620798, 145974983, 714424302, 172607269, 272434976, 435953688, 596560925, 360432059, 166456715,
    623159035, 816224430, 351291198, 427067084, 135833935, 120996161, 257273519, 904774353, 785147655, 615719483, 943423778, 590900890,
    851842995, 452886702, 594006891, 729926610, 660784334, 730383836, 509516261, 248489004, 93404584, 735840454, 749422800, 842787201,
    617979574, 271136977, 765241163, 396319519, 526615584, 712143861, 742444802, 695158323, 94132369, 446107802, 67473936, 435519331,
    26039408, 860252436, 183109122, 964144748, 621285544, 291533277, 711993211, 176315485, 418258096, 267558458, 703857956, 575874645,
    551133403, 695521615, 49698697, 451018548, 212718073, 735550885, 106313885, 951878371, 164659575, 404737817, 989860641, 508111892,
    292252853, 647167570, 178545697, 787645287, 221087235, 90330724, 868797188, 854079136, 689645892, 37527059, 914675413, 597454893,
    7639355, 605124423, 354844509, 98689453, 456820103, 210314240, 444958447, 23822226, 362368259, 171903816, 916535911, 432436519,
    84079775, 509750753, 109699246, 470979668, 394369707, 790899292, 195036887, 883064966, 837760616, 730806642, 307485828, 119980053,
    549349265, 795604853, 214942837, 72184595, 110457616, 281262876, 913149082, 92780812, 187172009, 800339803, 597753165, 820454300,
    293244494, 132981105, 787325959, 798967036, 648587486, 667905708, 191069028, 313608412, 998839354, 373176402, 80255749, 588060728,
    879860171, 195711379, 162319539, 677602011, 187761320, 704749513, 399922090, 651152770, 769035995, 217613018, 572541875, 104572131,
    590987573, 374801147, 772965916, 304041432, 999386341, 275414503, 79441827, 915836584, 750748775, 743841040, 257368047, 990954697,
    743469313, 101930303, 330677687, 428594788, 318937202, 216490064, 822476031, 380124327, 290424019, 809563024, 465861805, 689376714,
    546838751, 206575718, 590261417, 495981327, 451644020, 12611893, 963264918, 215140315, 374715159, 362817575, 165430580, 377850838,
    535805261, 514091282, 659440320, 593274047, 620784195, 382306438, 120432542, 131422906, 46909535, 6859114, 385442401, 794798540,
    40660669, 378375613, 413899096, 841785945, 772039762, 528567519, 222607826, 748013738, 117711499, 885285876, 208470276, 460293227,
    661809757, 923065616, 908112608, 499071778 >>

\* ---------------------------------------------------------------------------
\* Numbers.  A JavaScript number holding a nonnegative integer is the pair
\* <<hi, lo>> of value hi * 10^6 + lo with 0 <= lo < 10^6, so that Date.now()
\* (about 1.7 * 10^12) and Math.abs(-2^31) are represented exactly.
\* ---------------------------------------------------------------------------
Million == 1000 * 1000

Num(hi, lo) == <<hi, lo>>

NumOfInt(n) == <<n \div Million, n % Million>>

\* n + k for an integer k >= 0 (JavaScript +, exact below 2^53)
NumAdd(n, k) == <<n[1] + ((n[2] + k) \div Million), (n[2] + k) % Million>>

\* ---------------------------------------------------------------------------
\* Text.  A string is the sequence of its UTF-16 character codes.
\* ---------------------------------------------------------------------------
EmptyText == << >>
Whitespace == <<32>>
TextAb == <<97, 98>>
TextKi == <<107, 105>>
\* " t", a text whose 30-tile generation fails more than 1000 times
TextJump == <<32, 116>>

ADJECTIVES ==
  << <<83, 119, 105, 102, 116>>,        \* Swift
     <<78, 111, 98, 108, 101>>,         \* Noble
     <<66, 114, 97, 118, 101>>,         \* Brave
     <<66, 114, 105, 103, 104, 116>>,   \* Bright
     <<76, 117, 99, 107, 121>>,         \* Lucky
     <<71, 114, 97, 110, 100>>,         \* Grand
     <<87, 105, 115, 101>>,             \* Wise
     <<66, 111, 108, 100>>,             \* Bold
     <<69, 112, 105, 99>>,              \* Epic
     <<80, 117, 114, 101>> >>           \* Pure

NOUNS ==
  << <<83, 104, 101, 101, 112>>,        \* Sheep
     <<87, 104, 101, 97, 116>>,         \* Wheat
     <<87, 111, 111, 100>>,             \* Wood
     <<66, 114, 105, 99, 107>>,         \* Brick
     <<83, 116, 111, 110, 101>>,        \* Stone
     <<72, 97, 114, 98, 111, 114>>,     \* Harbor
     <<73, 115, 108, 97, 110, 100>>,    \* Island
     <<67, 111, 97, 115, 116>>,         \* Coast
     <<84, 114, 97, 100, 101>>,         \* Trade
     <<82, 111, 97, 100>> >>            \* Road

\* the mutation: n.toString() without the padding
PadStartNone(n) ==
  IF n >= 100 THEN <<48 + (n \div 100), 48 + ((n \div 10) % 10), 48 + (n % 10)>>
  ELSE IF n >= 10 THEN <<48 + (n \div 10), 48 + (n % 10)>>
  ELSE <<48 + n>>

\* n.toString().padStart(3, '0') for 0 <= n < 1000
PadStart3(n) == <<48 + (n \div 100), 48 + ((n \div 10) % 10), 48 + (n % 10)>>

\* ---------------------------------------------------------------------------
\* Random & hashing functions
\* ---------------------------------------------------------------------------

\* Math.sin(seed) * 10000 minus its floor, as the integer floor(r * 10^9).
\* Math.sin is tabulated (IEEE double values) on the ranges of seeds the
\* generations below consume.
seededRandom(seed) ==
  LET hi == seed[1]
      lo == seed[2]
      In(base, tab) == hi = base[1] /\ lo - base[2] \in 1..Len(tab)
  IN  IF In(<<0, 0>>, SinFracSmall) THEN SinFracSmall[lo]
      ELSE IF In(BaseNameA, SinFracNameA) THEN SinFracNameA[lo - BaseNameA[2]]
      ELSE IF In(BaseClockA, SinFracClockA) THEN SinFracClockA[lo - BaseClockA[2]]
      ELSE IF In(BaseShownA, SinFracShownA) THEN SinFracShownA[lo - BaseShownA[2]]
      ELSE IF In(BaseNameB, SinFracNameB) THEN SinFracNameB[lo - BaseNameB[2]]
      ELSE IF In(BaseClockB, SinFracClockB) THEN SinFracClockB[lo - BaseClockB[2]]
      ELSE IF In(BaseShownB, SinFracShownB) THEN SinFracShownB[lo - BaseShownB[2]]
      ELSE SinFracJump[lo - BaseJump[2]]

\* Math.floor(r * m) for r = seededRandom(..) given as floor(r * 10^9), 1 <= m <= 30
FloorTimes(r, m) ==
  LET a == r \div 10000
      b == r % 10000
  IN  (a * m + ((b * m) \div 10000)) \div 100000

\* the mutation: arr[i] = arr[j] alone, the element at i is lost
SwapOverwrite(arr, i, j) == [arr EXCEPT ![i + 1] = arr[j + 1]]

\* [arr[i], arr[j]] = [arr[j], arr[i]] on 0-based indices
Swap(arr, i, j) ==
  [k \in 1..Len(arr) |->
     IF k = i + 1 THEN arr[j + 1] ELSE IF k = j + 1 THEN arr[i + 1] ELSE arr[k]]

\* const j = Math.floor(seededRandom(seed + i) * (i + 1))
SwapIndex(seed, i) == FloorTimes(seededRandom(NumAdd(seed, i)), i + 1)

\* the Fisher-Yates loop of shuffleArray from index i down to 1
RECURSIVE FisherYates(_, _, _)
FisherYates(arr, seed, i) ==
  IF i <= 0 THEN arr
  ELSE FisherYates(Swap(arr, i, SwapIndex(seed, i)), seed, i - 1)

\* const arr = [...array]: a fresh array holding the same elements
SpreadCopy(array) == array

\* the mutation: the loop runs on the caller's array itself
shuffleArrayInPlace(array, seed) ==
  LET r == FisherYates(array, seed, Len(array) - 1)
  IN  [arr |-> r, array |-> r]

\* the mutation: the swap index is drawn from 0..i-1 and the element at i is
\* overwritten instead of swapped
shuffleArrayOverwrite(array, seed) ==
  LET RECURSIVE Go(_, _)
      Go(arr, i) ==
        IF i <= 0 THEN arr
        ELSE Go([arr EXCEPT ![i + 1] =
                   arr[FloorTimes(seededRandom(NumAdd(seed, i)), i + 1) + 1]], i - 1)
  IN  [arr |-> Go(array, Len(array) - 1), array |-> array]

\* shuffleArray(array, seed): arr is the array returned, array is the caller's
\* array as the call leaves it
shuffleArray(array, seed) ==
  [arr |-> FisherYates(SpreadCopy(array), seed, Len(array) - 1), array |-> array]

\* the arguments of seededRandom in shuffleArray(array, seed)
ShuffleInputs(array, seed) == {NumAdd(seed, i) : i \in 1..(Len(array) - 1)}

\* one round of hashString on the unsigned 32-bit value h = <<high 16 bits, low 16 bits>>:
\* hash = ((hash << 5) - hash) + char; hash = hash & hash
\* the mutation: the multiplier is 33, (hash << 5) + hash
HashStep33(h, char) ==
  LET lo == 33 * h[2] + char
  IN  <<(33 * h[1] + (lo \div 65536)) % 65536, lo % 65536>>

HashStep(h, char) ==
  LET lo == 31 * h[2] + char
  IN  <<(31 * h[1] + (lo \div 65536)) % 65536, lo % 65536>>

RECURSIVE HashFold(_, _, _)
HashFold(h, str, i) ==
  IF i > Len(str) THEN h ELSE HashFold(HashStep(h, str[i]), str, i + 1)

\* Math.abs of the signed 32-bit integer whose bits are h
AbsInt32(h) ==
  IF h[1] < 32768 THEN NumOfInt(h[1] * 65536 + h[2])
  ELSE LET borrow == IF h[2] = 0 THEN 0 ELSE 1
           mlo == (65536 - h[2]) % 65536
           mhi == 65536 - h[1] - borrow
       IN  IF mhi = 32768 THEN <<2147, 483648>>
           ELSE NumOfInt(mhi * 65536 + mlo)

hashString(str) == AbsInt32(HashFold(<<0, 0>>, str, 1))

\* ---------------------------------------------------------------------------
\* Seed generation
\* ---------------------------------------------------------------------------

\* Math.random() is a value in [0,1) given in millionths (0 .. 999999)
generateRandomFriendlyName(r1, r2, r3) ==
  ADJECTIVES[((r1 * Len(ADJECTIVES)) \div Million) + 1]
    \o NOUNS[((r2 * Len(NOUNS)) \div Million) + 1]
    \o PadStart3((r3 * 1000) \div Million)

generateFriendlySeed(numericSeed) ==
  ADJECTIVES[((numericSeed[2] \div 1000) % Len(ADJECTIVES)) + 1]
    \o NOUNS[((numericSeed[2] \div 100) % Len(NOUNS)) + 1]
    \o PadStart3(numericSeed[2] % 1000)

\* ---------------------------------------------------------------------------
\* Board geometry
\* ---------------------------------------------------------------------------
Abs(x) == IF x < 0 THEN 0 - x ELSE x

\* the mutation: the rule of the odd rows is applied to every row
areAdjacentNoParity(posObj1, posObj2) ==
  LET row1 == posObj1.pos[1]
      col1 == posObj1.pos[2]
      row2 == posObj2.pos[1]
      col2 == posObj2.pos[2]
  IN  IF Abs(row1 - row2) > 1 THEN FALSE
      ELSE IF row1 = row2 THEN Abs(col1 - col2) = 1
      ELSE col2 = col1 \/ col2 = col1 + 1

areAdjacent(posObj1, posObj2) ==
  LET row1 == posObj1.pos[1]
      col1 == posObj1.pos[2]
      row2 == posObj2.pos[1]
      col2 == posObj2.pos[2]
  IN  IF Abs(row1 - row2) > 1 THEN FALSE
      ELSE IF row1 = row2 THEN Abs(col1 - col2) = 1
      ELSE IF row1 % 2 = 0 THEN col2 = col1 \/ col2 = col1 - 1
      ELSE col2 = col1 \/ col2 = col1 + 1

\* the mutation: only the dice values below 7 are in the table
getPipValueLowHalf(num) ==
  CASE num = 2 -> 1
    [] num = 3 -> 2
    [] num = 4 -> 3
    [] num = 5 -> 4
    [] num = 6 -> 5
    [] OTHER -> 0

getPipValue(num) ==
  CASE num \in {2, 12} -> 1
    [] num \in {3, 11} -> 2
    [] num \in {4, 10} -> 3
    [] num \in {5, 9} -> 4
    [] num \in {6, 8} -> 5
    [] OTHER -> 0

\* ---------------------------------------------------------------------------
\* Game data
\* ---------------------------------------------------------------------------
P(row, col, edge) == [pos |-> <<row, col>>, edge |-> edge]

T(val, letter, red, pipValue) ==
  [val |-> val, letter |-> letter, red |-> red, pipValue |-> pipValue]

FourPlayerPositions ==
  << P(0, 0, TRUE), P(0, 1, TRUE), P(0, 2, TRUE),
     P(1, 0, TRUE), P(1, 1, FALSE), P(1, 2, FALSE), P(1, 3, TRUE),
     P(2, 0, TRUE), P(2, 1, FALSE), P(2, 2, FALSE), P(2, 3, FALSE), P(2, 4, TRUE),
     P(3, 0, TRUE), P(3, 1, FALSE), P(3, 2, FALSE), P(3, 3, TRUE),
     P(4, 0, TRUE), P(4, 1, TRUE), P(4, 2, TRUE) >>

FourPlayerResources ==
  << "wood", "wood", "wood", "wood",
     "wheat", "wheat", "wheat", "wheat",
     "sheep", "sheep", "sheep", "sheep",
     "ore", "ore", "ore",
     "brick", "brick", "brick",
     "desert" >>

FourPlayerNumbers ==
  << T(2, "A", FALSE, 1),
     T(3, "B", FALSE, 2),
     T(3, "C", FALSE, 2),
     T(4, "D", FALSE, 3),
     T(4, "E", FALSE, 3),
     T(5, "F", FALSE, 4),
     T(5, "G", FALSE, 4),
     T(6, "H", TRUE, 5),
     T(6, "I", TRUE, 5),
     T(8, "J", TRUE, 5),
     T(8, "K", TRUE, 5),
     T(9, "L", FALSE, 4),
     T(9, "M", FALSE, 4),
     T(10, "N", FALSE, 3),
     T(10, "O", FALSE, 3),
     T(11, "P", FALSE, 2),
     T(11, "Q", FALSE, 2),
     T(12, "R", FALSE, 1) >>

FiveSixPlayerPositions ==
  << P(1, 0, TRUE), P(1, 1, TRUE), P(1, 2, TRUE),
     P(2, 0, TRUE), P(2, 1, FALSE), P(2, 2, FALSE), P(2, 3, TRUE),
     P(3, 0, TRUE), P(3, 1, FALSE), P(3, 2, FALSE), P(3, 3, FALSE), P(3, 4, TRUE),
     P(4, 0, TRUE), P(4, 1, FALSE), P(4, 2, FALSE), P(4, 3, FALSE), P(4, 4, FALSE), P(4, 5, TRUE),
     P(5, 0, TRUE), P(5, 1, FALSE), P(5, 2, FALSE), P(5, 3, FALSE), P(5, 4, TRUE),
     P(6, 0, TRUE), P(6, 1, FALSE), P(6, 2, FALSE), P(6, 3, TRUE),
     P(7, 0, TRUE), P(7, 1, TRUE), P(7, 2, TRUE) >>

FiveSixPlayerResources ==
  << "wood", "wood", "wood", "wood", "wood", "wood",
     "wheat", "wheat", "wheat", "wheat", "wheat", "wheat",
     "sheep", "sheep", "sheep", "sheep", "sheep", "sheep",
     "ore", "ore", "ore", "ore", "ore",
     "brick", "brick", "brick", "brick", "brick",
     "desert", "desert" >>

FiveSixPlayerNumbers ==
  << T(2, "A", FALSE, 1),
     T(3, "B", FALSE, 2),
     T(3, "C", FALSE, 2),
     T(4, "D", FALSE, 3),
     T(4, "E", FALSE, 3),
     T(5, "F", FALSE, 4),
     T(5, "G", FALSE, 4),
     T(6, "H", TRUE, 5),
     T(6, "I", TRUE, 5),
     T(8, "J", TRUE, 5),
     T(8, "K", TRUE, 5),
     T(9, "L", FALSE, 4),
     T(9, "M", FALSE, 4),
     T(10, "N", FALSE, 3),
     T(10, "O", FALSE, 3),
     T(11, "P", FALSE, 2),
     T(11, "Q", FALSE, 2),
     T(12, "R", FALSE, 1),
     T(2, "S", FALSE, 1),
     T(3, "T", FALSE, 2),
     T(4, "U", FALSE, 3),
     T(5, "V", FALSE, 4),
     T(6, "W", TRUE, 5),
     T(8, "X", TRUE, 5),
     T(9, "Y", FALSE, 4),
     T(10, "Za", FALSE, 3),
     T(11, "Zb", FALSE, 2),
     T(12, "Zc", FALSE, 1) >>

\* the mutation: a second desert is announced
fourPlayerConfigTwoDeserts ==
  [positions |-> FourPlayerPositions, resources |-> FourPlayerResources,
   numbers |-> FourPlayerNumbers, desertCount |-> 2]

fourPlayerConfig ==
  [positions |-> FourPlayerPositions, resources |-> FourPlayerResources,
   numbers |-> FourPlayerNumbers, desertCount |-> 1]

fiveSixPlayerConfig ==
  [positions |-> FiveSixPlayerPositions, resources |-> FiveSixPlayerResources,
   numbers |-> FiveSixPlayerNumbers, desertCount |-> 2]

\* board-generator.ts and the standalone generator: landPositions, resources, numbers
\* and the two desert slots written out in shuffleBoard
standaloneData ==
  [positions |-> FiveSixPlayerPositions, resources |-> FiveSixPlayerResources,
   numbers |-> FiveSixPlayerNumbers, desertCount |-> 2]

Production == <<"wood", "wheat", "sheep", "ore", "brick">>

\* ---------------------------------------------------------------------------
\* Constants
\* ---------------------------------------------------------------------------
BALANCE_ATTEMPTS == 200
HIGH_PIP_THRESHOLD == 4
MAX_ADJACENT_HIGH_PIPS == 2
CIBI_VARIANCE_MULTIPLIER == 2
SeedJumpAfter == 1000
SeedJump == 100000
ResourceOffset == 500
NumberOffset == 1000

Undefined == "undefined"

\* the mutation: the resource shuffle is given the seed of the edge-slot shuffle
ResourceSeedNoOffset(s) == s

\* seed + 500, the seed of the resource shuffle
ResourceSeed(s) == NumAdd(s, ResourceOffset)

\* seed + 1000 + attempts, the seed of a number shuffle
NumberSeed(s, attempts) == NumAdd(s, NumberOffset + attempts)

\* ---------------------------------------------------------------------------
\* Balance calculation
\* ---------------------------------------------------------------------------
\* the mutation: the token is looked up by the slot number, not by the rank of
\* the slot among the non-desert slots
RECURSIVE SumPipsBySlot(_, _, _, _, _)
SumPipsBySlot(resource, shuffledResources, shuffledNumbers, nonDesertIndices, i) ==
  IF i > Len(nonDesertIndices) THEN 0
  ELSE (IF /\ nonDesertIndices[i] + 1 <= Len(shuffledNumbers)
           /\ shuffledResources[nonDesertIndices[i] + 1] = resource
        THEN shuffledNumbers[nonDesertIndices[i] + 1].pipValue ELSE 0)
       + SumPipsBySlot(resource, shuffledResources, shuffledNumbers, nonDesertIndices, i + 1)

\* the mutation: slot 0 is taken for a missing slot (a falsy index)
RECURSIVE SumPipsFalsyZero(_, _, _, _, _)
SumPipsFalsyZero(resource, shuffledResources, shuffledNumbers, nonDesertIndices, i) ==
  IF i > Len(nonDesertIndices) THEN 0
  ELSE (IF /\ i <= Len(shuffledNumbers)
           /\ nonDesertIndices[i] # 0
           /\ shuffledResources[nonDesertIndices[i] + 1] = resource
        THEN shuffledNumbers[i].pipValue ELSE 0)
       + SumPipsFalsyZero(resource, shuffledResources, shuffledNumbers, nonDesertIndices, i + 1)

\* resourcePipTotals[resource] after nonDesertIndices.forEach, from its i-th step on
RECURSIVE SumPips(_, _, _, _, _)
SumPips(resource, shuffledResources, shuffledNumbers, nonDesertIndices, i) ==
  IF i > Len(nonDesertIndices) THEN 0
  ELSE (IF /\ i <= Len(shuffledNumbers)
           /\ shuffledResources[nonDesertIndices[i] + 1] = resource
        THEN shuffledNumbers[i].pipValue ELSE 0)
       + SumPips(resource, shuffledResources, shuffledNumbers, nonDesertIndices, i + 1)

RECURSIVE SumSeq(_, _)
SumSeq(s, i) == IF i > Len(s) THEN 0 ELSE s[i] + SumSeq(s, i + 1)

\* the mutation: the score is not clamped at 0
ScoreOfNoClamp(pipValues) ==
  LET sum == SumSeq(pipValues, 1)
      squares == SumSeq([k \in 1..Len(pipValues) |-> pipValues[k] * pipValues[k]], 1)
      n == Len(pipValues)
      d == n * squares - sum * sum
      num == 100 * n * n - CIBI_VARIANCE_MULTIPLIER * d
  IN  (2 * num + n * n) \div (2 * n * n)

\* Math.round(Math.max(0, Math.min(100, 100 - variance * multiplier))) where
\* variance = (5 * sum of squares - square of sum) / 25 over the five totals
ScoreOf(pipValues) ==
  LET sum == SumSeq(pipValues, 1)
      squares == SumSeq([k \in 1..Len(pipValues) |-> pipValues[k] * pipValues[k]], 1)
      n == Len(pipValues)
      d == n * squares - sum * sum
      num == 100 * n * n - CIBI_VARIANCE_MULTIPLIER * d
  IN  IF num <= 0 THEN 0 ELSE (2 * num + n * n) \div (2 * n * n)

calculateCIBI(shuffledResources, shuffledNumbers, nonDesertIndices) ==
  LET resourcePipTotals ==
        [k \in 1..Len(Production) |->
           SumPips(Production[k], shuffledResources, shuffledNumbers, nonDesertIndices, 1)]
  IN  [score |-> ScoreOf(resourcePipTotals), pipTotals |-> resourcePipTotals]

\* Rule 1: no adjacent red numbers (6, 8)
NoAdjacentRed(shuffledNumbers, nonDesertIndices, positions) ==
  LET n == Len(nonDesertIndices)
      has(i) == i <= Len(shuffledNumbers)
  IN  ~ \E i \in 1..n :
          /\ has(i)
          /\ shuffledNumbers[i].red
          /\ \E j \in (i + 1)..n :
               /\ has(j)
               /\ shuffledNumbers[j].red
               /\ areAdjacent(positions[nonDesertIndices[i] + 1],
                              positions[nonDesertIndices[j] + 1])

\* the mutation: every adjacent token is counted, whatever its pip value
HighPipNeighborsAnyPip(shuffledNumbers, nonDesertIndices, positions, i) ==
  Cardinality({j \in 1..Len(nonDesertIndices) :
                 /\ j # i
                 /\ j <= Len(shuffledNumbers)
                 /\ areAdjacent(positions[nonDesertIndices[i] + 1],
                                positions[nonDesertIndices[j] + 1])})

\* the count highPipNeighbors of Rule 2 for the i-th non-desert slot
HighPipNeighbors(shuffledNumbers, nonDesertIndices, positions, i) ==
  Cardinality({j \in 1..Len(nonDesertIndices) :
                 /\ j # i
                 /\ j <= Len(shuffledNumbers)
                 /\ shuffledNumbers[j].pipValue >= HIGH_PIP_THRESHOLD
                 /\ areAdjacent(positions[nonDesertIndices[i] + 1],
                                positions[nonDesertIndices[j] + 1])})

\* the largest highPipNeighbors of a high-pip token of the arrangement
MaxHighPipNeighbors(shuffledNumbers, nonDesertIndices, positions) ==
  LET counts == {HighPipNeighbors(shuffledNumbers, nonDesertIndices, positions, i) :
                   i \in {k \in 1..Len(nonDesertIndices) :
                            /\ k <= Len(shuffledNumbers)
                            /\ shuffledNumbers[k].pipValue >= HIGH_PIP_THRESHOLD}}
  IN  IF counts = {} THEN 0 ELSE CHOOSE c \in counts : \A d \in counts : d <= c

\* Rule 2 with the failing test left open: highPipNeighbors \in tooMany
NoHighPipCluster(shuffledNumbers, nonDesertIndices, positions, tooMany) ==
  \A i \in 1..Len(nonDesertIndices) :
     \/ i > Len(shuffledNumbers)
     \/ shuffledNumbers[i].pipValue < HIGH_PIP_THRESHOLD
     \/ HighPipNeighbors(shuffledNumbers, nonDesertIndices, positions, i) \notin tooMany

\* the mutation: Rule 1 is not checked
isBalancedPlacementRule2Only(shuffledNumbers, nonDesertIndices, positions) ==
  LET tooMany == {k \in 0..Len(nonDesertIndices) : k > MAX_ADJACENT_HIGH_PIPS}
  IN  NoHighPipCluster(shuffledNumbers, nonDesertIndices, positions, tooMany)

\* the mode-aware generator and the standalone generator (positions = landPositions)
isBalancedPlacement(shuffledNumbers, nonDesertIndices, positions) ==
  LET tooMany == {k \in 0..Len(nonDesertIndices) : k > MAX_ADJACENT_HIGH_PIPS}
  IN  /\ NoAdjacentRed(shuffledNumbers, nonDesertIndices, positions)
      /\ NoHighPipCluster(shuffledNumbers, nonDesertIndices, positions, tooMany)

\* the mutation: two high-pip neighbours already fail
isBalancedPlacementGenTwo(shuffledNumbers, nonDesertIndices, positions) ==
  LET tooMany == {k \in 0..Len(nonDesertIndices) : k >= 2}
  IN  /\ NoAdjacentRed(shuffledNumbers, nonDesertIndices, positions)
      /\ NoHighPipCluster(shuffledNumbers, nonDesertIndices, positions, tooMany)

\* board-generator.ts (landPositions is the module's constant)
isBalancedPlacementGen(shuffledNumbers, nonDesertIndices, positions) ==
  LET tooMany == {k \in 0..Len(nonDesertIndices) : k >= 3}
  IN  /\ NoAdjacentRed(shuffledNumbers, nonDesertIndices, positions)
      /\ NoHighPipCluster(shuffledNumbers, nonDesertIndices, positions, tooMany)

\* ---------------------------------------------------------------------------
\* Bounds of the model and the inputs drawn from the environment
\* ---------------------------------------------------------------------------
NumSeedTexts == 3
NumDraws == 1
MaxLater == 2

\* the texts a user types into seedInput (besides a displayed seed copied back)
TextList == <<EmptyText, Whitespace, TextAb, TextKi>>

\* the texts of the generations that reach the seed jump, and the empty field
JumpTexts == {EmptyText, TextJump}
SeedTexts == {TextList[k] : k \in 1..NumSeedTexts}

\* one draw of the environment: three Math.random() values (in millionths) and
\* the value of Date.now()
DrawList ==
  << [r1 |-> 599148, r2 |-> 832724, r3 |-> 559292, now |-> Num(1762300, 800000)],
     [r1 |-> 435738, r2 |-> 721935, r3 |-> 243038, now |-> Num(1762300, 800000)] >>
Draws == {DrawList[k] : k \in 1..NumDraws}

Variants == {"generator", "standalone", "modes"}
Supported == {"4-player", "5-6-player"}
GameModes == Supported \cup {"3-player"}

NoRun == [text |-> EmptyText]

\* no shuffle yet, no verdict yet
NoSeeds == [edges |-> << >>, resources |-> << >>, numbers |-> << >>]
NotJudged == [numbers |-> << >>, accepted |-> FALSE]

\* no pure function has been called on its own
NoProbe == [op |-> "none"]

Min(a, b) == IF a < b THEN a ELSE b

VARIABLES
  variant,            \* which of the three programs runs: board-generator.ts,
                      \* the standalone generator, the mode-aware generator
  configs,            \* the game data arrays (mutable JavaScript arrays)
  currentGameMode,
  seedField,          \* value of the input element seedInput
  pc,                 \* "idle", "loop" (inside shuffleBoard's while), "done"
  seedInput,          \* shuffleBoard's locals, kept as the call leaves them
  friendlySeedName, seed, positions, configKey,
  shuffledResources, nonDesertIndices, desertPositions, shuffledNumbers, attempts,
  reshuffles,         \* number of reshuffles of the running generation
  calls,              \* number of calls of isBalancedPlacement in that generation
  shuffleSeeds,       \* the seeds passed to shuffleArray in that generation
  judged,             \* the arrangement isBalancedPlacement saw last, and its verdict
  seedDisplay, cibiDisplay, pipDisplays, hexes,
  track,              \* whether the first completed generation is remembered
  first,              \* the first completed generation (history)
  probe,              \* one call of a pure function: its arguments and result
  hidden              \* the land hexes whose style.display is 'none'

vars ==
  <<variant, configs, currentGameMode, seedField, pc, seedInput, friendlySeedName,
    seed, positions, configKey, shuffledResources, nonDesertIndices, desertPositions,
    shuffledNumbers, attempts, reshuffles, calls, shuffleSeeds, judged, seedDisplay, cibiDisplay, pipDisplays,
    hexes, track, first, probe, hidden>>

locals ==
  <<seedInput, friendlySeedName, seed, positions, configKey, shuffledResources,
    nonDesertIndices, desertPositions, shuffledNumbers, attempts, reshuffles>>

display == <<seedDisplay, cibiDisplay, pipDisplays, hexes>>

\* which configuration getCurrentConfig returns
\* ---------------------------------------------------------------------------
\* Current game mode
\* ---------------------------------------------------------------------------
ConfigKey(mode) == IF mode = "4-player" THEN "4-player" ELSE "5-6-player"

getCurrentConfig(cfgs, mode) == cfgs[ConfigKey(mode)]

\* ---------------------------------------------------------------------------
\* Main board generation
\* ---------------------------------------------------------------------------
RECURSIVE Filter(_, _, _)
\* s.filter(...): keep[i] tells whether the i-th element is kept
Filter(s, keep, i) ==
  IF i > Len(s) THEN << >>
  ELSE (IF keep[i] THEN <<s[i]>> ELSE << >>) \o Filter(s, keep, i + 1)

Indices(n) == [i \in 1..n |-> i - 1]

Includes(s, x) == \E k \in 1..Len(s) : s[k] = x

\* the mutation: every slot counts as an edge slot
EdgeIndicesAll(landPositions) == Indices(Len(landPositions))

\* landPositions.map((p, i) => p.edge ? i : -1).filter(i => i >= 0)
EdgeIndices(landPositions) ==
  LET isEdge == [i \in 1..Len(landPositions) |-> landPositions[i].edge]
  IN  Filter(Indices(Len(landPositions)), isEdge, 1)

\* the slots i < tileCount that are no desert slot, ascending
RemainingIndices(tileCount, deserts) ==
  LET keep == [i \in 1..tileCount |-> ~ Includes(deserts, i - 1)]
  IN  Filter(Indices(tileCount), keep, 1)

\* the resource part of shuffleBoard: deserts on shuffled edge slots, the other
\* resources shuffled onto the remaining slots
Deal(config, s) ==
  LET landPositions == config.positions
      tileCount == Len(landPositions)
      edgeIndices == EdgeIndices(landPositions)
      isProduction == [i \in 1..Len(config.resources) |-> config.resources[i] # "desert"]
      nonDesertResources == Filter(config.resources, isProduction, 1)
      shuffledEdges == shuffleArray(edgeIndices, s).arr
      deserts == [i \in 1..config.desertCount |-> shuffledEdges[i]]
      remainingIndices == RemainingIndices(tileCount, deserts)
      shuffledNonDesert == shuffleArray(nonDesertResources, ResourceSeed(s)).arr
      Rank(idx) == CHOOSE i \in 1..Len(remainingIndices) : remainingIndices[i] = idx
      resourcesOut ==
        [k \in 1..tileCount |->
           IF Includes(deserts, k - 1) THEN "desert"
           ELSE IF Rank(k - 1) <= Len(shuffledNonDesert)
                THEN shuffledNonDesert[Rank(k - 1)] ELSE Undefined]
      isLand == [i \in 1..tileCount |-> resourcesOut[i] # "desert"]
  IN  [shuffledResources |-> resourcesOut,
       desertPositions |-> deserts,
       nonDesertIndices |-> Filter(Indices(tileCount), isLand, 1)]

\* the state shuffleBoard reaches at its while loop, for seed text name and
\* numeric seed s, on the configuration stored under key
Begin(input, name, s, key) ==
  LET config == configs[key]
      deal == Deal(config, s)
      shuffled == shuffleArray(config.numbers, NumberSeed(s, 0))
  IN  /\ pc' = "loop"
      /\ seedInput' = input
      /\ friendlySeedName' = name
      /\ seed' = s
      /\ positions' = config.positions
      /\ configKey' = key
      /\ shuffledResources' = deal.shuffledResources
      /\ desertPositions' = deal.desertPositions
      /\ nonDesertIndices' = deal.nonDesertIndices
      /\ shuffledNumbers' = shuffled.arr
      /\ configs' = [configs EXCEPT ![key].numbers = shuffled.array]
      /\ attempts' = 0
      /\ reshuffles' = 0
      /\ calls' = 0
      /\ shuffleSeeds' = [edges |-> <<s>>,
                          resources |-> <<ResourceSeed(s)>>,
                          numbers |-> <<NumberSeed(s, 0)>>]
      /\ judged' = NotJudged
      /\ UNCHANGED <<variant, currentGameMode, seedField, display, track, first, probe, hidden>>

\* board-generator.ts: shuffleBoard up to the while loop
ShuffleBoardGenerator ==
  /\ variant = "generator"
  /\ pc # "loop"
  /\ \E d \in Draws :
       IF seedField # EmptyText
       THEN Begin(seedField, seedField, hashString(seedField), "5-6-player")
       ELSE LET s == NumAdd(d.now, d.r1)
            IN  Begin(seedField, generateFriendlySeed(s), s, "5-6-player")

\* the standalone generator: shuffleBoard up to the while loop
ShuffleBoardStandalone ==
  /\ variant = "standalone"
  /\ pc # "loop"
  /\ \E d \in Draws :
       LET name == IF seedField # EmptyText THEN seedField
                   ELSE generateRandomFriendlyName(d.r1, d.r2, d.r3)
       IN  Begin(seedField, name, hashString(name), "5-6-player")

\* the mode-aware generator: shuffleBoard up to the while loop
ShuffleBoardModes ==
  /\ variant = "modes"
  /\ pc # "loop"
  /\ \E d \in Draws :
       LET name == IF seedField # EmptyText THEN seedField
                   ELSE generateRandomFriendlyName(d.r1, d.r2, d.r3)
       IN  Begin(seedField, name, hashString(name), ConfigKey(currentGameMode))

Balanced ==
  IF variant = "generator"
  THEN isBalancedPlacementGen(shuffledNumbers, nonDesertIndices, positions)
  ELSE isBalancedPlacement(shuffledNumbers, nonDesertIndices, positions)

\* the mutation: the retry budget is not tested
ContinueBoundedNoBudget == ~ Balanced

\* the mutation: the budget test is attempts <= BALANCE_ATTEMPTS
ContinueBoundedOffByOne == attempts <= BALANCE_ATTEMPTS /\ ~ Balanced

\* the loop test of the bounded generators
ContinueBounded == attempts < BALANCE_ATTEMPTS /\ ~ Balanced

\* the loop test of the mode-aware generator
ContinueModes == ~ Balanced

Continue == IF variant = "modes" THEN ContinueModes ELSE ContinueBounded

\* one pass of the while body of board-generator.ts and the standalone generator
RetryBounded ==
  /\ pc = "loop"
  /\ variant # "modes"
  /\ ContinueBounded
  /\ LET shuffled == shuffleArray(configs[configKey].numbers,
                                  NumberSeed(seed, attempts))
     IN  /\ shuffledNumbers' = shuffled.arr
         /\ configs' = [configs EXCEPT ![configKey].numbers = shuffled.array]
  /\ shuffleSeeds' = [shuffleSeeds EXCEPT
                        !.numbers = Append(@, NumberSeed(seed, attempts))]
  /\ judged' = [numbers |-> shuffledNumbers, accepted |-> FALSE]
  /\ attempts' = attempts + 1
  /\ reshuffles' = reshuffles + 1
  /\ calls' = calls + 1
  /\ UNCHANGED <<variant, currentGameMode, seedField, pc, seedInput, friendlySeedName,
                 seed, positions, configKey, shuffledResources, nonDesertIndices,
                 desertPositions, display, track, first, probe, hidden>>

\* one pass of the while body of the mode-aware generator
RetryModes ==
  /\ pc = "loop"
  /\ variant = "modes"
  /\ ContinueModes
  /\ LET shuffled == shuffleArray(configs[configKey].numbers,
                                  NumberSeed(seed, attempts + 1))
     IN  /\ shuffledNumbers' = shuffled.arr
         /\ configs' = [configs EXCEPT ![configKey].numbers = shuffled.array]
  /\ shuffleSeeds' = [shuffleSeeds EXCEPT
                        !.numbers = Append(@, NumberSeed(seed, attempts + 1))]
  /\ judged' = [numbers |-> shuffledNumbers, accepted |-> FALSE]
  /\ IF attempts + 1 > SeedJumpAfter
     THEN attempts' = 0 /\ seed' = NumAdd(seed, SeedJump)
     ELSE attempts' = attempts + 1 /\ seed' = seed
  /\ reshuffles' = reshuffles + 1
  /\ calls' = calls + 1
  /\ UNCHANGED <<variant, currentGameMode, seedField, pc, seedInput, friendlySeedName,
                 positions, configKey, shuffledResources, nonDesertIndices,
                 desertPositions, display, track, first, probe, hidden>>

\* updateBoardDisplay: the tile and the token shown on each slot
BoardDisplay(resourcesIn, numbersIn) ==
  LET NumberIndex(k) ==
        Cardinality({m \in 1..(k - 1) :
                       resourcesIn[m] # Undefined /\ resourcesIn[m] # "desert"}) + 1
  IN  [k \in 1..Len(resourcesIn) |->
         [resource |-> resourcesIn[k],
          letter |-> IF resourcesIn[k] \in {Undefined, "desert"} THEN ""
                     ELSE IF NumberIndex(k) <= Len(numbersIn)
                          THEN numbersIn[NumberIndex(k)].letter ELSE ""]]

\* what one completed generation produced
Outcome ==
  LET cibiResult == calculateCIBI(shuffledResources, shuffledNumbers, nonDesertIndices)
  IN  [text |-> friendlySeedName, input |-> seedInput, config |-> configKey,
       resources |-> shuffledResources, numbers |-> shuffledNumbers,
       score |-> cibiResult.score, pipTotals |-> cibiResult.pipTotals,
       later |-> 0, other |-> FALSE]

\* the history after one more completed generation
Remember ==
  IF ~ track THEN first
  ELSE IF first = NoRun THEN Outcome
  ELSE [first EXCEPT
          !.later = Min(first.later + 1, MaxLater),
          !.other = first.other \/ first.text # friendlySeedName
                                \/ first.config # configKey]

\* whether the loop test reaches its call of isBalancedPlacement: the bounded
\* generators test attempts < BALANCE_ATTEMPTS first
Validated == variant = "modes" \/ attempts < BALANCE_ATTEMPTS

\* the mutation: after a seed jump the name is made again from the numeric seed
SeedShownFromSeed ==
  IF seed = hashString(friendlySeedName) THEN friendlySeedName
  ELSE generateFriendlySeed(seed)

\* updateSeedDisplay(friendlySeedName): the text put into seedDisplay
SeedShown == friendlySeedName

\* the rest of shuffleBoard once the loop ends: scoring and the displays
Finish ==
  /\ pc = "loop"
  /\ ~ Continue
  /\ pc' = "done"
  /\ LET cibiResult == calculateCIBI(shuffledResources, shuffledNumbers, nonDesertIndices)
     IN  /\ seedDisplay' = SeedShown
         /\ cibiDisplay' = cibiResult.score
         /\ pipDisplays' = cibiResult.pipTotals
         /\ hexes' = BoardDisplay(shuffledResources, shuffledNumbers)
  /\ first' = Remember
  /\ calls' = IF Validated THEN calls + 1 ELSE calls
  /\ judged' = IF Validated THEN [numbers |-> shuffledNumbers, accepted |-> Balanced]
               ELSE judged
  /\ UNCHANGED <<variant, configs, currentGameMode, seedField, locals, shuffleSeeds, track,
                 probe, hidden>>

\* the user edits the seed field
TypeText(texts) ==
  /\ pc # "loop"
  /\ \E t \in texts :
       /\ t # seedField
       /\ track => t # Whitespace
       /\ seedField' = t
  /\ UNCHANGED <<variant, configs, currentGameMode, pc, locals, calls, shuffleSeeds, judged,
                 display, track, first, probe, hidden>>

\* one of the texts, or the displayed seed
TypeSeed == TypeText(SeedTexts \cup {seedDisplay})

\* the text of the long generation, or the field cleared
TypeLongSeed == TypeText(JumpTexts)

\* the land hexes of the page: the 30 slots of the 5-6 layout in slot order
LandHexes == 0..(Len(FiveSixPlayerPositions) - 1)

visibleIndices ==
  {0, 1, 2,
   3, 4, 5, 6,
   7, 8, 9, 10, 11,
   13, 14, 15, 16,
   19, 20, 21}

\* the hexes hidden once updateBoardVisibility has run in the given mode
updateBoardVisibility(mode) ==
  IF mode = "5-6-player" THEN {} ELSE LandHexes \ visibleIndices

setGameMode ==
  /\ variant = "modes"
  /\ pc # "loop"
  /\ \E mode \in GameModes :
       /\ mode # currentGameMode
       /\ currentGameMode' = mode
       /\ hidden' = updateBoardVisibility(mode)
  /\ UNCHANGED <<variant, configs, seedField, pc, locals, calls, shuffleSeeds, judged,
                 display, track, first, probe>>

InitCommon ==
  /\ variant \in Variants
  /\ configs = [k \in Supported |->
                  IF k = "4-player" THEN fourPlayerConfig
                  ELSE IF variant = "modes" THEN fiveSixPlayerConfig ELSE standaloneData]
  /\ currentGameMode = "5-6-player"
  /\ seedField = EmptyText
  /\ pc = "idle"
  /\ seedInput = EmptyText
  /\ friendlySeedName = EmptyText
  /\ seed = Num(0, 0)
  /\ positions = << >>
  /\ configKey = "5-6-player"
  /\ shuffledResources = << >>
  /\ nonDesertIndices = << >>
  /\ desertPositions = << >>
  /\ shuffledNumbers = << >>
  /\ attempts = 0
  /\ reshuffles = 0
  /\ calls = 0
  /\ shuffleSeeds = NoSeeds
  /\ judged = NotJudged
  /\ seedDisplay = EmptyText
  /\ cibiDisplay = 0
  /\ pipDisplays = << >>
  /\ hexes = << >>
  /\ first = NoRun
  /\ probe = NoProbe
  /\ hidden = updateBoardVisibility(currentGameMode)

Init == InitCommon /\ track = FALSE

InitHistory == InitCommon /\ track = TRUE

Next ==
  \/ TypeSeed
  \/ setGameMode
  \/ ShuffleBoardGenerator
  \/ ShuffleBoardStandalone
  \/ ShuffleBoardModes
  \/ RetryBounded
  \/ RetryModes
  \/ Finish

Spec == Init /\ [][Next]_vars

\* the same program with the first completed generation remembered, on the
\* texts whose generations are short
SpecHistory == InitHistory /\ [][Next]_vars

\* the same program on the seed text whose generation reaches the seed jump
NextJump ==
  \/ TypeLongSeed
  \/ setGameMode
  \/ ShuffleBoardGenerator
  \/ ShuffleBoardStandalone
  \/ ShuffleBoardModes
  \/ RetryBounded
  \/ RetryModes
  \/ Finish

SpecJump == Init /\ [][NextJump]_vars

\* ---------------------------------------------------------------------------
\* The pure functions called on their own, on arguments drawn from small sets
\* ---------------------------------------------------------------------------
NumTokenRows == 6

\* rows of dice values laid on the slots, the first NumTokenRows of them are drawn
TokenRowList ==
  << <<6, 6, 6, 6, 6>>, <<2, 3, 4, 5, 6>>, <<8, 12, 8, 12, 8>>, <<9, 9, 10, 11, 2>>,
     <<3, 3, 3, 3, 3>>, <<6, 8, 5, 9, 12>>, <<4, 10, 4, 10, 11>>, <<12, 2, 12, 2, 12>> >>
TokenRows == {TokenRowList[k] : k \in 1..Min(NumTokenRows, Len(TokenRowList))}

\* a token as the configurations write it
Token(v) == T(v, "", v \in {6, 8}, getPipValue(v))

\* one slot for each production resource
ProbeSlots == Len(Production)

Kinds == {Production[k] : k \in 1..Len(Production)} \cup {"desert"}

machine ==
  <<variant, configs, currentGameMode, seedField, pc, locals, calls, shuffleSeeds, judged,
    display, track, first, hidden>>

\* calculateCIBI on an arrangement of ProbeSlots slots, called as shuffleBoard
\* calls it: nonDesertIndices are the slots that are no desert
ProbeCIBI ==
  /\ probe = NoProbe
  /\ \E resourcesIn \in [1..ProbeSlots -> Kinds], dice \in TokenRows :
       LET isLand == [i \in 1..ProbeSlots |-> resourcesIn[i] # "desert"]
           indices == Filter(Indices(ProbeSlots), isLand, 1)
           numbersIn == [i \in 1..ProbeSlots |-> Token(dice[i])]
       IN  probe' = [op |-> "calculateCIBI", resources |-> resourcesIn,
                     numbers |-> numbersIn, indices |-> indices,
                     out |-> calculateCIBI(resourcesIn, numbersIn, indices)]
  /\ UNCHANGED machine

MaxDie == 12

\* getPipValue on a dice value and on the value mirrored at 7
ProbePipValue ==
  /\ probe = NoProbe
  /\ \E v \in 2..MaxDie :
       probe' = [op |-> "getPipValue", num |-> v, out |-> getPipValue(v),
                 mirrored |-> getPipValue(14 - v)]
  /\ UNCHANGED machine

ConfigNames == {"fourPlayerConfig", "fiveSixPlayerConfig", "standalone"}

ConfigNamed(name) ==
  CASE name = "fourPlayerConfig" -> fourPlayerConfig
    [] name = "fiveSixPlayerConfig" -> fiveSixPlayerConfig
    [] OTHER -> standaloneData

\* getPipValue on the dice value of a token of a configuration
ProbeTokenPip ==
  /\ probe = NoProbe
  /\ \E name \in ConfigNames :
       \E k \in 1..Len(ConfigNamed(name).numbers) :
          LET token == ConfigNamed(name).numbers[k]
          IN  probe' = [op |-> "tokenPip", config |-> name, index |-> k,
                        token |-> token, out |-> getPipValue(token.val)]
  /\ UNCHANGED machine

MaxTextLen == 6

\* character codes of a, A, space and the largest UTF-16 code unit
HashAlphabet == {97, 65, 32, 65535}

\* "GydZG_", whose fold ends at -2^31
TextMinInt == <<71, 121, 100, 90, 71, 95>>

HashTexts ==
  UNION {[1..n -> HashAlphabet] : n \in 0..MaxTextLen} \cup {TextMinInt}

ProbeHash ==
  /\ probe = NoProbe
  /\ \E text \in HashTexts :
       probe' = [op |-> "hashString", text |-> text, out |-> hashString(text)]
  /\ UNCHANGED machine

NumRandoms == 5
MaxSeedProbe == 2100

\* values of Math.random() in millionths, the first NumRandoms of them are drawn
RandomList == <<0, 999999, 42000, 100000, 599148, 99999, 7000, 250000>>
Randoms == {RandomList[k] : k \in 1..Min(NumRandoms, Len(RandomList))}

ProbeRandomName ==
  /\ probe = NoProbe
  /\ \E r1 \in Randoms, r2 \in Randoms, r3 \in Randoms :
       probe' = [op |-> "generateRandomFriendlyName", r1 |-> r1, r2 |-> r2, r3 |-> r3,
                 out |-> generateRandomFriendlyName(r1, r2, r3)]
  /\ UNCHANGED machine

\* numeric seeds: the small ones and the clock seeds of the draws
ProbeSeeds ==
  {NumOfInt(n) : n \in 0..MaxSeedProbe}
    \cup {NumAdd(DrawList[k].now, DrawList[k].r1) : k \in 1..Len(DrawList)}

ProbeFriendlySeed ==
  /\ probe = NoProbe
  /\ \E n \in ProbeSeeds :
       probe' = [op |-> "generateFriendlySeed", numericSeed |-> n,
                 out |-> generateFriendlySeed(n)]
  /\ UNCHANGED machine

NumProbeTiles == 7

\* the first NumProbeTiles slots of the 4-player board
ProbeBoard == SubSeq(FourPlayerPositions, 1, Min(NumProbeTiles, Len(FourPlayerPositions)))

\* a red token, a high-pip token that is not red, a low-pip token
ProbeDice == {6, 9, 2}

\* two rows of resource kinds for the land slots
ProbeResourceRows ==
  {[k \in 1..Len(ProbeBoard) |-> "wood"],
   [k \in 1..Len(ProbeBoard) |-> Production[(k % Len(Production)) + 1]]}

\* isBalancedPlacement (both versions) on the probe board, with no desert
\* (desert = -1) or with one desert slot
ProbeBalanced ==
  /\ probe = NoProbe
  /\ \E dice \in [1..Len(ProbeBoard) -> ProbeDice], desert \in -1..(Len(ProbeBoard) - 1),
        row \in ProbeResourceRows :
       LET resourcesIn == [k \in 1..Len(ProbeBoard) |->
                            IF k - 1 = desert THEN "desert" ELSE row[k]]
           isLand == [k \in 1..Len(ProbeBoard) |-> resourcesIn[k] # "desert"]
           indices == Filter(Indices(Len(ProbeBoard)), isLand, 1)
           numbersIn == [i \in 1..Len(indices) |-> Token(dice[i])]
       IN  probe' = [op |-> "isBalancedPlacement", numbers |-> numbersIn,
                     resources |-> resourcesIn, indices |-> indices,
                     positions |-> ProbeBoard,
                     out |-> isBalancedPlacement(numbersIn, indices, ProbeBoard),
                     outGen |-> isBalancedPlacementGen(numbersIn, indices, ProbeBoard)]
  /\ UNCHANGED machine

MaxArrayLen == 4
NumShuffleSeeds == 40

ProbeElements == {"wood", "ore", "desert"}

\* the arrays shuffled on their own: every short array, and two of the
\* configured lists
ProbeArrays ==
  UNION {[1..n -> ProbeElements] : n \in 0..MaxArrayLen}
    \cup {FourPlayerNumbers, FiveSixPlayerResources}

\* shuffleArray on an array and a seed; draws and swaps are the values of
\* seededRandom(seed + i) and of j at each step i of its loop
ProbeShuffle ==
  /\ probe = NoProbe
  /\ \E array \in ProbeArrays, s \in 1..NumShuffleSeeds :
       LET shuffled == shuffleArray(array, NumOfInt(s))
           steps == 1..(Len(array) - 1)
       IN  probe' = [op |-> "shuffleArray", array |-> array, seed |-> NumOfInt(s),
                     draws |-> [i \in steps |-> seededRandom(NumAdd(NumOfInt(s), i))],
                     swaps |-> [i \in steps |-> SwapIndex(NumOfInt(s), i)],
                     out |-> shuffled.arr, after |-> shuffled.array]
  /\ UNCHANGED machine

MaxCoord == 5

\* integer rows and columns, one of them negative
Coords == -1..MaxCoord

\* areAdjacent on two positions, both ways round, and on a position and itself
ProbeAdjacency ==
  /\ probe = NoProbe
  /\ \E row1 \in Coords, col1 \in Coords, row2 \in Coords, col2 \in Coords :
       LET p == P(row1, col1, FALSE)
           q == P(row2, col2, FALSE)
       IN  probe' = [op |-> "areAdjacent", p |-> p.pos, q |-> q.pos,
                     out |-> areAdjacent(p, q), back |-> areAdjacent(q, p),
                     self |-> areAdjacent(p, p)]
  /\ UNCHANGED machine

NumArrangements == 40

\* the pairs of distinct edge slots of the 30-tile board, as ascending pairs
DesertPairs ==
  LET edgeIndices == EdgeIndices(FiveSixPlayerPositions)
  IN  {<<edgeIndices[a], edgeIndices[b]>> :
         a \in 1..Len(edgeIndices), b \in 1..Len(edgeIndices)} \cap
      {pair \in Nat \X Nat : pair[1] < pair[2]}

\* arrangements of the 28 tokens: the list as written and its shuffles
Arrangements ==
  {FiveSixPlayerNumbers} \cup
  {shuffleArray(FiveSixPlayerNumbers, NumOfInt(s)).arr : s \in 1..NumArrangements}

\* the three copies of isBalancedPlacement on one arrangement of the 30-tile
\* board: board-generator.ts and the standalone generator read their own
\* landPositions, the mode-aware generator is passed the configured positions
ProbeValidators ==
  /\ probe = NoProbe
  /\ \E deserts \in DesertPairs, numbersIn \in Arrangements :
       LET keep == [i \in 1..Len(FiveSixPlayerPositions) |->
                      i - 1 # deserts[1] /\ i - 1 # deserts[2]]
           indices == Filter(Indices(Len(FiveSixPlayerPositions)), keep, 1)
       IN  probe' = [op |-> "validators", deserts |-> deserts, numbers |-> numbersIn,
                     indices |-> indices,
                     generator |-> isBalancedPlacementGen(numbersIn, indices,
                                                          standaloneData.positions),
                     standalone |-> isBalancedPlacement(numbersIn, indices,
                                                        standaloneData.positions),
                     modes |-> isBalancedPlacement(numbersIn, indices,
                                                   fiveSixPlayerConfig.positions),
                     noAdjacentRed |-> NoAdjacentRed(numbersIn, indices,
                                                     FiveSixPlayerPositions),
                     maxHighPipNeighbors |->
                       MaxHighPipNeighbors(numbersIn, indices, FiveSixPlayerPositions)]
  /\ UNCHANGED machine

\* the slots of a position list that areAdjacent reports adjacent to slot index
Neighbours(landPositions, index) ==
  {j \in 0..(Len(landPositions) - 1) :
     j # index /\ areAdjacent(landPositions[index + 1], landPositions[j + 1])}

\* areAdjacent on one tile of a configured position list against all others
ProbeNeighbours ==
  /\ probe = NoProbe
  /\ \E name \in ConfigNames :
       \E index \in 0..(Len(ConfigNamed(name).positions) - 1) :
          LET landPositions == ConfigNamed(name).positions
          IN  probe' = [op |-> "neighbours", config |-> name, index |-> index,
                        tile |-> landPositions[index + 1],
                        adjacent |-> Neighbours(landPositions, index)]
  /\ UNCHANGED machine

\* the choices of desertCount distinct edge slots of a configuration
DesertSets(config) ==
  LET edgeIndices == EdgeIndices(config.positions)
      edgeSlots == {edgeIndices[k] : k \in 1..Len(edgeIndices)}
  IN  {slots \in SUBSET edgeSlots : Cardinality(slots) = config.desertCount}

\* seeds of number shuffles whose arrangements are tried on each choice
PlacementSeeds == {335, 3127, 3248}

\* isBalancedPlacement on the shuffles of the configured tokens for one choice
\* of desert slots: the seeds whose arrangement each version accepts
ProbePlacements ==
  /\ probe = NoProbe
  /\ \E name \in ConfigNames :
       \E deserts \in DesertSets(ConfigNamed(name)) :
          LET config == ConfigNamed(name)
              keep == [i \in 1..Len(config.positions) |-> (i - 1) \notin deserts]
              indices == Filter(Indices(Len(config.positions)), keep, 1)
              Candidate(s) == shuffleArray(config.numbers, NumOfInt(s)).arr
          IN  probe' = [op |-> "placements", config |-> name, deserts |-> deserts,
                        indices |-> indices,
                        accepted |->
                          {s \in PlacementSeeds :
                             isBalancedPlacement(Candidate(s), indices, config.positions)},
                        acceptedGen |->
                          {s \in PlacementSeeds :
                             isBalancedPlacementGen(Candidate(s), indices,
                                                    config.positions)}]
  /\ UNCHANGED machine

InitPure == InitCommon /\ variant = "modes" /\ track = FALSE

NextPure ==
  \/ ProbeNeighbours
  \/ ProbePlacements
  \/ ProbeCIBI
  \/ ProbePipValue
  \/ ProbeTokenPip
  \/ ProbeHash
  \/ ProbeRandomName
  \/ ProbeFriendlySeed
  \/ ProbeBalanced
  \/ ProbeShuffle
  \/ ProbeAdjacency
  \/ ProbeValidators

SpecPure == InitPure /\ [][NextPure]_vars

\* ---------------------------------------------------------------------------
\* Properties
\* ---------------------------------------------------------------------------
Ran == pc \in {"loop", "done"}

\* the configuration as the source text gives it
SourceConfig == IF configKey = "4-player" THEN fourPlayerConfig ELSE fiveSixPlayerConfig

Count(s, x) == Cardinality({k \in 1..Len(s) : s[k] = x})

SameKeyAsFirst == first.text = friendlySeedName /\ first.config = configKey

SameLayoutAsFirst ==
  /\ first.resources = shuffledResources
  /\ first.numbers = shuffledNumbers

\* C1  Determinism: a generation from a non-empty seed text on a board mode
\* computes the resources per slot, the tokens per slot, the CIBI score and the
\* five pip totals that the first generation from that text and mode computed,
\* whatever was generated or switched in between.
Determinism ==
  (/\ pc = "done"
   /\ first # NoRun
   /\ first.input # EmptyText
   /\ seedInput # EmptyText
   /\ SameKeyAsFirst)
  => /\ SameLayoutAsFirst
     /\ first.score = cibiDisplay
     /\ first.pipTotals = pipDisplays

\* a generation repeats the first one after a different generation in between
DeterminismWitness ==
  /\ pc = "done"
  /\ first # NoRun
  /\ first.input # EmptyText
  /\ seedInput # EmptyText
  /\ SameKeyAsFirst
  /\ first.later >= 2
  /\ first.other
  /\ cibiDisplay = first.score

\* C2  Shared-seed round trip: after a generation from an empty seed input, a
\* later generation whose seed input is the seed text that generation displayed
\* yields the same resource assignment and the same token assignment.
SharedSeedRoundTrip ==
  (/\ pc = "done"
   /\ first # NoRun
   /\ first.input = EmptyText
   /\ seedInput = first.text
   /\ first.config = configKey)
  => SameLayoutAsFirst

\* C3  Coverage/bijection: every slot holds exactly one resource, the assigned
\* resources are the configured resource list as a multiset, the tokens are a
\* permutation of the configured token list, and the i-th token sits on the
\* i-th non-desert slot in ascending slot order.
CoverageBijection ==
  Ran =>
    LET config == SourceConfig
        n == Len(config.positions)
        kinds == {config.resources[k] : k \in 1..Len(config.resources)}
    IN  /\ Len(shuffledResources) = n
        /\ \A k \in 1..n : shuffledResources[k] \in kinds
        /\ \A r \in kinds : Count(shuffledResources, r) = Count(config.resources, r)
        /\ Len(shuffledNumbers) = Len(config.numbers)
        /\ \A k \in 1..Len(config.numbers) : Count(shuffledNumbers, config.numbers[k]) = 1
        /\ Len(nonDesertIndices) = Len(shuffledNumbers)
        /\ \A i \in 1..Len(nonDesertIndices) :
             /\ nonDesertIndices[i] \in 0..(n - 1)
             /\ shuffledResources[nonDesertIndices[i] + 1] # "desert"
             /\ i > 1 => nonDesertIndices[i - 1] < nonDesertIndices[i]
        /\ pc = "done" =>
             \A i \in 1..Len(nonDesertIndices) :
                hexes[nonDesertIndices[i] + 1].letter = shuffledNumbers[i].letter

\* a layout of the 19-tile board is displayed after retries
CoverageWitness ==
  /\ pc = "done"
  /\ Len(positions) = 19
  /\ reshuffles > 0
  /\ Len(hexes) = 19

\* C4  Desert-on-edge: exactly desertCount slots are desert (1 on the 4-player
\* board, 2 on the 5-6-player board), they are pairwise distinct and each is an
\* edge slot.
DesertOnEdge ==
  Ran =>
    LET desertCount == IF configKey = "4-player" THEN 1 ELSE 2
    IN  /\ Len(desertPositions) = desertCount
        /\ Count(shuffledResources, "desert") = desertCount
        /\ \A i \in 1..Len(desertPositions) :
             /\ shuffledResources[desertPositions[i] + 1] = "desert"
             /\ SourceConfig.positions[desertPositions[i] + 1].edge
             /\ \A j \in 1..Len(desertPositions) :
                  i # j => desertPositions[i] # desertPositions[j]

\* both boards get their deserts: one on the 19-tile board, two on the 30-tile board
DesertWitness ==
  /\ pc = "done"
  /\ configKey = "4-player"
  /\ Len(desertPositions) = 1
  /\ positions[desertPositions[1] + 1].edge

\* the token on the i-th non-desert slot is red: it shows 6 or 8
RedAt(i) == shuffledNumbers[i].val \in {6, 8}

SlotsAdjacent(i, j) ==
  areAdjacent(positions[nonDesertIndices[i] + 1], positions[nonDesertIndices[j] + 1])

\* no two red tokens lie on adjacent slots
RedsApart ==
  \A i, j \in 1..Len(nonDesertIndices) :
     (i # j /\ RedAt(i) /\ RedAt(j)) => ~ SlotsAdjacent(i, j)

\* no slot with pipValue >= 4 has more than 2 adjacent slots with pipValue >= 4
NoCluster ==
  \A i \in 1..Len(nonDesertIndices) :
     shuffledNumbers[i].pipValue >= 4 =>
       Cardinality({j \in 1..Len(nonDesertIndices) :
                      /\ j # i
                      /\ shuffledNumbers[j].pipValue >= 4
                      /\ SlotsAdjacent(i, j)}) <= 2

\* C5  Adjacency rule compliance absent exhaustion: when the retry loop ends
\* without the budget being exhausted (attempts < 200 in the bounded generators,
\* any exit in the mode-aware generator), the arrangement handed to scoring has
\* no two red tokens on adjacent slots and no high-pip cluster.
AdjacencyCompliance ==
  (pc = "done" /\ (variant = "modes" \/ attempts < BALANCE_ATTEMPTS))
  => RedsApart /\ NoCluster

\* a bounded generator ends its loop after some retries with budget left
AdjacencyWitness ==
  /\ pc = "done"
  /\ variant = "standalone"
  /\ attempts > 0
  /\ attempts < BALANCE_ATTEMPTS
  /\ RedsApart

\* C6  Red number rule of the README: no generated board has two red tokens
\* (6 or 8) on adjacent tiles.
RedNumberRule == pc = "done" => RedsApart

\* C7  Termination by explicit bound: the retry loop of the mode-aware
\* generator reshuffles at most BALANCE_ATTEMPTS times in one generation.
BoundedReshuffles == variant = "modes" => reshuffles <= BALANCE_ATTEMPTS

IsPermutation(s, t) ==
  /\ Len(s) = Len(t)
  /\ \A k \in 1..Len(t) : Count(s, t[k]) = 1

\* C8  Budget exhaustion is not a failure: once a bounded generator has used
\* its 200 retries the loop ends, whatever the candidate, and scoring and
\* display proceed with the last reshuffled candidate, a permutation of the
\* token list.
BudgetExhaustionProceeds ==
  (Ran /\ variant # "modes" /\ attempts = BALANCE_ATTEMPTS) =>
    /\ shuffledNumbers =
         FisherYates(SourceConfig.numbers,
                     NumAdd(seed, NumberOffset + BALANCE_ATTEMPTS - 1),
                     Len(SourceConfig.numbers) - 1)
    /\ IsPermutation(shuffledNumbers, SourceConfig.numbers)
    /\ pc = "loop" => (ENABLED Finish /\ ~ ENABLED RetryBounded)
    /\ pc = "done" =>
         /\ cibiDisplay =
              calculateCIBI(shuffledResources, shuffledNumbers, nonDesertIndices).score
         /\ hexes = BoardDisplay(shuffledResources, shuffledNumbers)

\* a rejected candidate is displayed after 200 retries
BudgetExhaustionWitness ==
  /\ pc = "done"
  /\ variant = "generator"
  /\ attempts = BALANCE_ATTEMPTS
  /\ ~ RedsApart
  /\ Len(hexes) = 30

IsBlank(text) == \A k \in 1..Len(text) : text[k] \in {9, 10, 11, 12, 13, 32}

IsDigit(c) == c \in 48..57

\* Adjective + Noun + three decimal digits
IsFriendlyName(text) ==
  \E a \in 1..Len(ADJECTIVES), n \in 1..Len(NOUNS) :
     LET words == ADJECTIVES[a] \o NOUNS[n]
     IN  /\ Len(text) = Len(words) + 3
         /\ SubSeq(text, 1, Len(words)) = words
         /\ \A k \in (Len(words) + 1)..Len(text) : IsDigit(text[k])

\* C9  An empty or whitespace-only seed input counts as no seed supplied: the
\* seed text that is displayed is a generated friendly name, and the input is
\* neither that text nor the text that is hashed into the numeric seed.
BlankSeedIsNoSeed ==
  (Ran /\ IsBlank(seedInput)) =>
    /\ IsFriendlyName(friendlySeedName)
    /\ friendlySeedName # seedInput
    /\ seed # hashString(seedInput)
    /\ pc = "done" => seedDisplay = friendlySeedName

\* C10  A game mode other than the supported ones is rejected before any
\* shuffling: shuffleBoard never works under such a mode.
UnsupportedModeRejected == currentGameMode \notin Supported => pc # "loop"

\* ---------------------------------------------------------------------------
\* Properties of the pure functions
\* ---------------------------------------------------------------------------
AllEqual(s) == \A i, j \in 1..Len(s) : s[i] = s[j]

\* 125 times (100 - 2 * population variance) of five totals
ScaledScore(totals) ==
  LET S == SumSeq(totals, 1)
      Q == SumSeq([k \in 1..Len(totals) |-> (5 * totals[k] - S) * (5 * totals[k] - S)], 1)
  IN  12500 - 2 * Q

\* C11  Score bounds: calculateCIBI returns an integer score in 0..100 that is
\* 100 - 2 * (population variance of the five pip totals), rounded to the
\* nearest integer and clamped to [0,100]; equal totals give 100.
ScoreBounds ==
  probe.op = "calculateCIBI" =>
    LET totals == probe.out.pipTotals
        score == probe.out.score
        X == ScaledScore(totals)
    IN  /\ Len(totals) = 5
        /\ score \in 0..100
        /\ X <= 0 => score = 0
        /\ X > 0 => (250 * score <= 2 * X + 125 /\ 2 * X + 125 < 250 * (score + 1))
        /\ AllEqual(totals) => score = 100

\* five equal, positive pip totals
ScoreWitness ==
  /\ probe.op = "calculateCIBI"
  /\ AllEqual(probe.out.pipTotals)
  /\ probe.out.pipTotals[1] > 0
  /\ probe.out.score = 100

\* the four counts a configuration has to agree on
Consistent(config) ==
  /\ Len(config.resources) = Len(config.positions)
  /\ Count(config.resources, "desert") = config.desertCount
  /\ Len(config.numbers) = Len(config.positions) - config.desertCount
  /\ Cardinality({k \in 1..Len(config.positions) : config.positions[k].edge})
       >= config.desertCount

\* C12  Static configuration consistency: in the 4-player, the 5-6-player and
\* the standalone data, as written and as any number of generations leave them,
\* the resource list is as long as the position list, it holds desertCount
\* deserts, there is one token per non-desert position, and there are at least
\* desertCount edge positions.
StaticConsistency ==
  /\ Consistent(fourPlayerConfig)
  /\ Consistent(fiveSixPlayerConfig)
  /\ Consistent(standaloneData)
  /\ \A k \in DOMAIN configs : Consistent(configs[k])

\* the 4-player data after a 4-player board was generated with retries
StaticWitness ==
  /\ pc = "done"
  /\ configKey = "4-player"
  /\ reshuffles > 0
  /\ Len(configs["4-player"].positions) = 19
  /\ Len(configs["5-6-player"].positions) = 30
  /\ Consistent(configs["4-player"])

\* C13  Pip weight is a function of the dice value: getPipValue(v) =
\* getPipValue(14 - v) for v in 2..12 other than 7, getPipValue(6) =
\* getPipValue(8) = 5, and every token of every configuration carries
\* pipValue = getPipValue(val) and is red exactly when val is 6 or 8.
PipWeights ==
  /\ (probe.op = "getPipValue" /\ probe.num \in (2..12) \ {7}) =>
        /\ probe.out = probe.mirrored
        /\ probe.out \in 1..5
        /\ probe.num \in {6, 8} => probe.out = 5
  /\ probe.op = "tokenPip" =>
        /\ probe.token.pipValue = probe.out
        /\ probe.token.red = (probe.token.val \in {6, 8})
        /\ probe.token.val \in (2..12) \ {7}

\* a red 8 of the 4-player tokens
PipWitness ==
  /\ probe.op = "tokenPip"
  /\ probe.config = "fourPlayerConfig"
  /\ probe.token.val = 8
  /\ probe.token.red
  /\ probe.out = 5

Int32Max == 2147483647
Int32Min == -2147483647 - 1

\* a + b wrapped to the signed 32-bit range, for a and b in that range
WrapAdd(a, b) ==
  IF a >= 0 /\ b >= 0 /\ a > Int32Max - b
    THEN (a - Int32Max - 1) + (b - Int32Max - 1)
  ELSE IF a < 0 /\ b < 0 /\ a < Int32Min - b
    THEN (a + Int32Max + 1) + (b + Int32Max + 1)
  ELSE a + b

\* wrap32(31 * h + c) as h + 2h + 4h + 8h + 16h + c
Wrap31(h, c) ==
  LET h2 == WrapAdd(h, h)
      h4 == WrapAdd(h2, h2)
      h8 == WrapAdd(h4, h4)
      h16 == WrapAdd(h8, h8)
  IN  WrapAdd(WrapAdd(WrapAdd(WrapAdd(WrapAdd(h, h2), h4), h8), h16), c)

RECURSIVE SignedFold(_, _, _)
SignedFold(h, text, i) ==
  IF i > Len(text) THEN h ELSE SignedFold(Wrap31(h, text[i]), text, i + 1)

\* the absolute value of a signed 32-bit integer, as a number
AbsOf(h) ==
  IF h = Int32Min THEN Num(2147, 483648)
  ELSE IF h < 0 THEN NumOfInt(0 - h) ELSE NumOfInt(h)

NameFormat ==
  probe.op \in {"generateRandomFriendlyName", "generateFriendlySeed"} =>
    IsFriendlyName(probe.out)

\* a name whose number needs two padding zeros
NameWitness ==
  /\ probe.op = "generateFriendlySeed"
  /\ probe.numericSeed = NumOfInt(2007)
  /\ IsFriendlyName(probe.out)
  /\ SubSeq(probe.out, Len(probe.out) - 2, Len(probe.out)) = <<48, 48, 55>>

\* the slots of the i-th and the j-th token of the probe are adjacent
ProbeAdjacent(i, j) ==
  areAdjacent(probe.positions[probe.indices[i] + 1],
              probe.positions[probe.indices[j] + 1])

\* rule A: no two slots carrying red tokens are adjacent
RuleA ==
  \A i, j \in 1..Len(probe.indices) :
     (i # j /\ probe.numbers[i].red /\ probe.numbers[j].red) => ~ ProbeAdjacent(i, j)

\* rule B: a slot whose token has pipValue >= 4 has at most 2 adjacent slots
\* whose token has pipValue >= 4
RuleB ==
  \A i \in 1..Len(probe.indices) :
     probe.numbers[i].pipValue >= 4 =>
       Cardinality({j \in 1..Len(probe.indices) :
                      /\ j # i
                      /\ probe.numbers[j].pipValue >= 4
                      /\ ProbeAdjacent(i, j)}) <= 2

\* C16  isBalancedPlacement returns true exactly when rule A and rule B hold of
\* the arrangement token[i] on slot nonDesertIndices[i], in the version with
\* MAX_ADJACENT_HIGH_PIPS and in the version of board-generator.ts alike, and
\* whatever resource kinds lie on the slots.
BalancedIffRules ==
  probe.op = "isBalancedPlacement" =>
    /\ probe.out = (RuleA /\ RuleB)
    /\ probe.outGen = (RuleA /\ RuleB)

\* an arrangement rejected by rule B alone, with a desert on the board
BalancedWitness ==
  /\ probe.op = "isBalancedPlacement"
  /\ Len(probe.indices) < Len(probe.positions)
  /\ RuleA
  /\ ~ RuleB
  /\ ~ probe.out
  /\ ~ probe.outGen

\* the elements of a sequence
Elements(s) == {s[k] : k \in 1..Len(s)}

\* C17  With every PRNG value in [0,1), shuffleArray picks at each step i from
\* length - 1 down to 1 a swap index j with 0 <= j <= i, and returns a sequence
\* of the same length holding every element as often as the input does.
ShufflePermutes ==
  (/\ probe.op = "shuffleArray"
   /\ \A i \in DOMAIN probe.draws : probe.draws[i] \in 0..(1000 * Million - 1)) =>
    /\ DOMAIN probe.swaps = 1..(Len(probe.array) - 1)
    /\ \A i \in DOMAIN probe.swaps : probe.swaps[i] \in 0..i
    /\ Len(probe.out) = Len(probe.array)
    /\ \A x \in Elements(probe.array) \cup Elements(probe.out) :
          Count(probe.out, x) = Count(probe.array, x)

\* the 30 resources of the 5-6-player board in a new order
ShuffleWitness ==
  /\ probe.op = "shuffleArray"
  /\ probe.array = FiveSixPlayerResources
  /\ probe.out # probe.array
  /\ \E i \in DOMAIN probe.swaps : probe.swaps[i] = i
  /\ \E i \in DOMAIN probe.swaps : probe.swaps[i] = 0

\* the game data as the source files write them
OriginalConfigs ==
  [k \in Supported |->
     IF k = "4-player" THEN fourPlayerConfig
     ELSE IF variant = "modes" THEN fiveSixPlayerConfig ELSE standaloneData]

\* the shuffle seed of the candidate the loop holds after a reshuffle
LastShuffleSeed ==
  IF variant = "modes" THEN NumAdd(seed, NumberOffset + attempts)
  ELSE NumAdd(seed, NumberOffset + attempts - 1)

\* C18  shuffleArray leaves its input unchanged: across any number of retries
\* and generations the configured token, resource and position lists keep
\* their original order, and every retry candidate is a shuffle of the
\* original token list, not of the previous candidate.
InputsUnchanged ==
  /\ configs = OriginalConfigs
  /\ Ran => positions = OriginalConfigs[configKey].positions
  /\ (Ran /\ reshuffles > 0 /\ reshuffles <= SeedJumpAfter) =>
        shuffledNumbers =
          FisherYates(OriginalConfigs[configKey].numbers, LastShuffleSeed,
                      Len(OriginalConfigs[configKey].numbers) - 1)

\* the third candidate of a 4-player generation
InputsWitness ==
  /\ pc = "loop"
  /\ variant = "modes"
  /\ configKey = "4-player"
  /\ reshuffles = 3
  /\ configs["4-player"].numbers = FourPlayerNumbers
  /\ shuffledNumbers # FourPlayerNumbers

\* C19  Retry budget of the bounded generators: attempts stays within 0..200,
\* the loop reshuffles at most 200 times after the initial shuffle, the k-th
\* reshuffle uses the shuffle seed seed + 1000 + (k - 1), and
\* isBalancedPlacement is called at most 200 times in one generation.
RetryBudget ==
  variant # "modes" =>
    /\ attempts \in 0..BALANCE_ATTEMPTS
    /\ reshuffles \in 0..BALANCE_ATTEMPTS
    /\ calls \in 0..BALANCE_ATTEMPTS
    /\ (Ran /\ reshuffles > 0) =>
          shuffledNumbers =
            FisherYates(configs[configKey].numbers,
                        NumAdd(seed, NumberOffset + (reshuffles - 1)),
                        Len(configs[configKey].numbers) - 1)
    /\ (Ran /\ reshuffles = 0) =>
          shuffledNumbers =
            FisherYates(configs[configKey].numbers, NumAdd(seed, NumberOffset),
                        Len(configs[configKey].numbers) - 1)

\* a generation that used the whole budget: 200 reshuffles and 200 calls
RetryBudgetWitness ==
  /\ variant = "standalone"
  /\ pc = "done"
  /\ attempts = BALANCE_ATTEMPTS
  /\ reshuffles = BALANCE_ATTEMPTS
  /\ calls = BALANCE_ATTEMPTS

IsEven(n) == \E k \in -50..50 : n = 2 * k

\* C20  areAdjacent is symmetric and irreflexive on integer positions;
\* positions whose rows differ by more than 1 are never adjacent, and for rows
\* that differ by exactly 1 the parity of the first row decides: even rows are
\* adjacent to columns col1 and col1 - 1, odd rows to columns col1 and col1 + 1.
AdjacencySymmetric ==
  probe.op = "areAdjacent" =>
    LET row1 == probe.p[1]
        col1 == probe.p[2]
        row2 == probe.q[1]
        col2 == probe.q[2]
    IN  /\ probe.out = probe.back
        /\ ~ probe.self
        /\ (row1 - row2 > 1 \/ row2 - row1 > 1) => ~ probe.out
        /\ (row1 - row2 = 1 \/ row2 - row1 = 1) =>
              probe.out = IF IsEven(row1) THEN col2 \in {col1, col1 - 1}
                          ELSE col2 \in {col1, col1 + 1}

\* an odd row and the next column of the row below it
AdjacencyPairWitness ==
  /\ probe.op = "areAdjacent"
  /\ probe.p = <<1, 2>>
  /\ probe.q = <<2, 3>>
  /\ probe.out
  /\ probe.back

\* ---------------------------------------------------------------------------
\* The validator copies
\* ---------------------------------------------------------------------------

\* C21: on the 30-tile board, for every pair of distinct edge desert slots and
\* every arrangement of the tokens, isBalancedPlacement of board-generator.ts
\* (highPipNeighbors >= 3), of the standalone generator and of the mode-aware
\* generator (highPipNeighbors > MAX_ADJACENT_HIGH_PIPS) return the same
\* verdict; the two tests also agree on every arrangement of the small board
ValidatorsAgree ==
  /\ probe.op = "validators" =>
       /\ probe.generator = probe.standalone
       /\ probe.standalone = probe.modes
       /\ probe.modes = (probe.noAdjacentRed
                           /\ probe.maxHighPipNeighbors <= MAX_ADJACENT_HIGH_PIPS)
  /\ probe.op = "isBalancedPlacement" => probe.out = probe.outGen

\* an accepted arrangement of the 30-tile board in which a high-pip token has
\* exactly MAX_ADJACENT_HIGH_PIPS high-pip neighbours, the count next to the
\* tests that differ in wording
ValidatorsWitness ==
  /\ probe.op = "validators"
  /\ probe.modes
  /\ probe.generator
  /\ probe.maxHighPipNeighbors = MAX_ADJACENT_HIGH_PIPS

\* ---------------------------------------------------------------------------
\* Pip totals of a generated layout
\* ---------------------------------------------------------------------------

\* the slots of the layout, 0-based
Slots == 0..(Len(shuffledResources) - 1)

\* the pip value lying on a slot: that of token i on slot nonDesertIndices[i]
PlacedPip(slot) ==
  LET ranks == {i \in 1..Len(nonDesertIndices) :
                  nonDesertIndices[i] = slot /\ i <= Len(shuffledNumbers)}
  IN  IF ranks = {} THEN 0 ELSE shuffledNumbers[CHOOSE i \in ranks : TRUE].pipValue

RECURSIVE PipsOn(_)
PipsOn(slots) ==
  IF slots = {} THEN 0
  ELSE LET slot == CHOOSE x \in slots : TRUE
       IN  PlacedPip(slot) + PipsOn(slots \ {slot})

SlotsOf(kind) == {slot \in Slots : shuffledResources[slot + 1] = kind}

\* C22: for every layout of a generation and each production kind k, the
\* pipTotals[k] of calculateCIBI is the sum of pipValue over the tokens lying
\* on the slots whose resource is k, token i lying on nonDesertIndices[i];
\* desert slots carry no token and add to no total; the totals shown are those
\* of the final layout
PipTotalsBySlot ==
  pc \in {"loop", "done"} =>
    LET cibiResult == calculateCIBI(shuffledResources, shuffledNumbers, nonDesertIndices)
    IN  /\ \A k \in 1..Len(Production) :
              cibiResult.pipTotals[k] = PipsOn(SlotsOf(Production[k]))
        /\ PipsOn(SlotsOf("desert")) = 0
        /\ \A i \in 1..Len(nonDesertIndices) :
              shuffledResources[nonDesertIndices[i] + 1] # "desert"
        /\ pc = "done" => pipDisplays = cibiResult.pipTotals

\* a finished generation with retries whose five totals are positive and not
\* all the same, with a desert slot lying before a production slot
PipTotalsWitness ==
  /\ pc = "done"
  /\ reshuffles > 0
  /\ \A k \in 1..Len(Production) : pipDisplays[k] > 0
  /\ \E k \in 1..Len(Production) : pipDisplays[k] # pipDisplays[1]
  /\ \E d \in SlotsOf("desert") : \E i \in 1..Len(nonDesertIndices) :
        nonDesertIndices[i] > d

\* ---------------------------------------------------------------------------
\* Seeds of the shuffles of one generation
\* ---------------------------------------------------------------------------

Last(s) == s[Len(s)]

\* the arrays the three kinds of shuffle of the running generation work on
EdgeArray == EdgeIndices(OriginalConfigs[configKey].positions)
ResourceArray ==
  LET resourceList == OriginalConfigs[configKey].resources
  IN  SelectSeq(resourceList, LAMBDA r : r # "desert")
NumberArray == OriginalConfigs[configKey].numbers

\* the PRNG inputs consumed by the edge-slot shuffle, by the resource shuffle
\* and by the latest number shuffle of the running generation
EdgeInputs == UNION {ShuffleInputs(EdgeArray, shuffleSeeds.edges[k]) :
                       k \in 1..Len(shuffleSeeds.edges)}
ResourceInputs == UNION {ShuffleInputs(ResourceArray, shuffleSeeds.resources[k]) :
                           k \in 1..Len(shuffleSeeds.resources)}
LatestNumberInputs == ShuffleInputs(NumberArray, Last(shuffleSeeds.numbers))

\* C23: within one generation (either board size, any number of retries, seed
\* jumps included) the PRNG inputs consumed by the edge-slot shuffle, by the
\* resource shuffle and by the number shuffles are pairwise disjoint; every
\* number shuffle is the latest one in the state that follows it, so the
\* formula compares each of them with the other two sets
SeedOffsetsIndependent ==
  Ran =>
    /\ Len(shuffleSeeds.edges) = 1
    /\ Len(shuffleSeeds.resources) = 1
    /\ Len(shuffleSeeds.numbers) = reshuffles + 1
    /\ EdgeInputs \cap ResourceInputs = {}
    /\ EdgeInputs \cap LatestNumberInputs = {}
    /\ ResourceInputs \cap LatestNumberInputs = {}

\* the mode-aware generator has jumped to another seed space and then finished
SeedOffsetsWitness ==
  /\ variant = "modes"
  /\ pc = "done"
  /\ reshuffles > SeedJumpAfter
  /\ seed = NumAdd(shuffleSeeds.edges[1], SeedJump)
  /\ EdgeInputs # {}
  /\ ResourceInputs # {}
  /\ LatestNumberInputs # {}

\* C24: in the bounded generators no shuffle seed is tried twice within one
\* generation: the seeds of the initial number shuffle and of the retries are
\* pairwise different
NoSeedTwice ==
  (variant # "modes" /\ Ran) =>
    \A a \in 1..Len(shuffleSeeds.numbers) : \A b \in 1..Len(shuffleSeeds.numbers) :
       shuffleSeeds.numbers[a] = shuffleSeeds.numbers[b] => a = b

\* C25: in the bounded generators the arrangement handed to scoring and display
\* has been evaluated by isBalancedPlacement: it is the arrangement of the
\* validator's last verdict, which accepted it or, on budget exhaustion,
\* rejected it
ScoredWasJudged ==
  (variant # "modes" /\ pc = "done") =>
    /\ judged.numbers = shuffledNumbers
    /\ judged.accepted \/ attempts = BALANCE_ATTEMPTS

\* ---------------------------------------------------------------------------
\* The adjacency graph of the configured boards
\* ---------------------------------------------------------------------------

\* C26: on each configured position list the graph of areAdjacent is a
\* hex-tile graph: every tile has at most 6 adjacent tiles and every tile
\* flagged edge = false has exactly 6
HexTileGraph ==
  probe.op = "neighbours" =>
    /\ Cardinality(probe.adjacent) <= 6
    /\ ~ probe.tile.edge => Cardinality(probe.adjacent) = 6

\* ---------------------------------------------------------------------------
\* Display and visibility in 4-player mode
\* ---------------------------------------------------------------------------

\* the hexes on which updateBoardDisplay rendered the tiles of the generation
RenderedHexes == {k - 1 : k \in {m \in 1..Len(hexes) : hexes[m].resource # Undefined}}

\* the hexes updateBoardVisibility leaves visible
VisibleHexes == LandHexes \ hidden

\* C27: in 4-player mode the hexes on which updateBoardDisplay renders the 19
\* generated tiles are exactly the hexes updateBoardVisibility leaves visible
RenderedIsVisible ==
  (variant = "modes" /\ pc = "done" /\ configKey = "4-player"
     /\ currentGameMode = "4-player") =>
    RenderedHexes = VisibleHexes

\* ---------------------------------------------------------------------------
\* The sum of the pip totals
\* ---------------------------------------------------------------------------

\* the total pipValue of a token list
TokenPips(tokens) == SumSeq([k \in 1..Len(tokens) |-> tokens[k].pipValue], 1)

\* C28: for every layout of a generation the five pip totals sum to the total
\* pipValue of the configured token list, 58 on the 19-tile board and 88 on the
\* 30-tile board, whatever the seed and the number of retries; so do the
\* totals displayed
PipSumConstant ==
  Ran =>
    LET cibiResult == calculateCIBI(shuffledResources, shuffledNumbers, nonDesertIndices)
        total == IF configKey = "4-player" THEN 58 ELSE 88
    IN  /\ TokenPips(OriginalConfigs[configKey].numbers) = total
        /\ SumSeq(cibiResult.pipTotals, 1) = total
        /\ pc = "done" => SumSeq(pipDisplays, 1) = total

\* a generation on the 19-tile board that finished after retries and displays
\* five totals summing to 58
PipSumWitness ==
  /\ pc = "done"
  /\ configKey = "4-player"
  /\ reshuffles > 0
  /\ SumSeq(pipDisplays, 1) = 58
  /\ Len(pipDisplays) = Len(Production)

\* ---------------------------------------------------------------------------
\* Existence of a valid placement
\* ---------------------------------------------------------------------------

\* C29: for each configuration and each choice of desertCount distinct edge
\* slots as deserts, some assignment of the configured tokens to the
\* non-desert slots is accepted by isBalancedPlacement (by either version)
PlacementExists ==
  probe.op = "placements" =>
    /\ probe.accepted # {}
    /\ probe.acceptedGen # {}

\* the choice of the last two edge slots of the 30-tile board as deserts, with
\* an accepted arrangement found and another arrangement rejected
PlacementWitness ==
  /\ probe.op = "placements"
  /\ probe.config = "fiveSixPlayerConfig"
  /\ probe.deserts = {28, 29}
  /\ Len(probe.indices) = Len(FiveSixPlayerNumbers)
  /\ probe.accepted # {}
  /\ probe.accepted # PlacementSeeds

\* ---------------------------------------------------------------------------
\* The seed jump of the mode-aware generator
\* ---------------------------------------------------------------------------

\* the numeric seed the seed text of the running generation hashes to
OriginalSeed == hashString(friendlySeedName)

\* the number of seed jumps the running generation has made
Jumps == Cardinality({k \in 1..Len(shuffleSeeds.numbers) :
                        k > 1 /\ (k - 1) % (SeedJumpAfter + 1) = 0})

RECURSIVE Jumped(_, _)
Jumped(s, n) == IF n = 0 THEN s ELSE Jumped(NumAdd(s, SeedJump), n - 1)

\* C30: in the mode-aware generator the seed jump changes only the seeds of
\* later number shuffles: the seed is the original seed plus 100000 per jump,
\* while the desert slots, the resource assignment, nonDesertIndices and the
\* seed text (kept and displayed) are those derived from the original seed text
JumpFrame ==
  (variant = "modes" /\ Ran) =>
    LET deal == Deal(OriginalConfigs[configKey], OriginalSeed)
    IN  /\ seed = Jumped(OriginalSeed, Jumps)
        /\ shuffleSeeds.edges = <<OriginalSeed>>
        /\ shuffleSeeds.resources = <<ResourceSeed(OriginalSeed)>>
        /\ desertPositions = deal.desertPositions
        /\ shuffledResources = deal.shuffledResources
        /\ nonDesertIndices = deal.nonDesertIndices
        /\ seedInput # EmptyText => friendlySeedName = seedInput
        /\ pc = "done" => seedDisplay = friendlySeedName

\* a generation that jumped once, went on reshuffling with the new seed and
\* finished
JumpWitness ==
  /\ variant = "modes"
  /\ pc = "done"
  /\ seed = NumAdd(OriginalSeed, SeedJump)
  /\ reshuffles > SeedJumpAfter + 1
  /\ Last(shuffleSeeds.numbers) = NumberSeed(seed, attempts)
  /\ seedDisplay = TextJump

====
